---- MODULE Spec2Model ----
(***************************************************************************)
(* Model of rendering/src/minimal_scene.cpp: the RenderSync hand-off       *)
(* between the Qt scene-graph thread (TextureNode::PrepareNode), the       *)
(* render worker thread (RenderThread::RenderNext -> IgnRenderer::Render)  *)
(* and the GUI thread (input, resize, ~RenderWindowItem).                  *)
(*                                                                         *)
(* Three threads of control:                                               *)
(*   "worker"  the RenderThread event loop (queued slots)                  *)
(*   "qt"      the scene-graph thread running PrepareNode                  *)
(*   "gui"     the GUI thread: input events, item resize, destructor       *)
(***************************************************************************)
EXTENDS Integers, Sequences, FiniteSets, TLC

\* ------------------------------------------------------------------ bounds
\* number of PrepareNode calls (GUI frames) explored
MaxPrepare == 3
\* number of input events written by the GUI thread
MaxInput == 1
\* number of item geometry changes
MaxResize == 1
\* number of RenderSync::Shutdown calls made one after the other
MaxShutdown == 2
\* number of PrepareNode calls explored with every lock a step of its own
MaxLockFrames == 2

\* QQuickItem::width() and height() are qreal: an item dimension v stands for
\* v / ItemUnit, so that fractions below 1 exist
ItemUnit == 2

\* GL texture ids the engine may hand out
TexIds == {7, 8}
\* item sizes a geometry change may set: 4.0 x 0, 4.0 x 0.5 and 3.0 x 2.0
ResizeSizes == {<<8, 0>>, <<8, 1>>, <<6, 4>>}
\* item size when Ready runs: 4.0 x 3.0
InitItemSizes == {<<8, 6>>}

\* ------------------------------------------------------------------ state
VARIABLES
  \* RenderSync
  renderStallState,   \* RenderSync::renderStallState
  mutex,              \* holder of RenderSync::mutex, or "free"
  cvWaiters,          \* threads inside RenderSync::cv.wait, not yet notified
  \* positions of the three threads
  wpc, qpc, gpc,
  \* Qt plumbing
  queue,              \* event queue of the worker thread (queued slot calls)
  connected,          \* the connections of RenderWindowItem::Implementation
  \* IgnRenderer
  initialized, textureId, textureSize, textureDirty,
  input,              \* IgnRenderer::Implementation: dirty flags and events
  dispatched,         \* events sent by the last HandleMouseEvent call
  keySent,            \* key events sent by all HandleMouseEvent calls so far
  toScene,            \* last ScreenToScene call: the ray query's answer and
                      \* the point returned
  written,            \* history: per category, the events the GUI thread
                      \* has written since the last HandleMouseEvent call
  inputMutex,         \* holder of IgnRenderer::Implementation::mutex, or "free"
  writing,            \* the function the GUI thread is inside, holding or
                      \* about to release that mutex, or "none"
  seen,               \* history: the input as the Broadcast* functions of
                      \* the last HandleMouseEvent call left it
  texMutex,           \* holder of TextureNode::mutex, or "free"
  \* rendering engine as seen through the camera / scene handles
  engineCfg,          \* what the engine can do: "ok", "noEngine", "noGrid"
  gridEnable,         \* IgnRenderer::gridEnable
  scene, camera,
  peer,               \* another RenderWindowItem whose renderer has the same
                      \* sceneName: "none", "created", "rendering", "gone"
  sceneDestroys,      \* history: calls of engine->DestroyScene
  initCalls,          \* number of IgnRenderer::Initialize calls
  \* RenderWindowItem geometry
  itemW, itemH,
  sizeRequest,        \* size stored by the last SizeChanged call; (-1, -1)
                      \* before the first
  \* TextureNode
  nodeId, nodeSize, texture, dirtyMarks, wrappers, newId, sz,
  \* history
  observed,           \* state the worker saw when its wait predicate held
  sdWaiters,          \* threads blocked in cv.wait when Shutdown() wrote the state
  sdMid,              \* Shutdown() called during a worker cycle: its progress
  cyclesInCall,       \* worker releases since WaitForWorkerThread was entered
  published, consumed,\* number of NewTexture calls / non-zero takes
  pubHandles,         \* the (id, size) pairs NewTexture has stored
  handle,             \* fate of the texture of the last completed cycle
  emitCount, waitCalls, takenId,
  prepareCount, inputCount, resizeCount,
  \* RenderSync::Shutdown calls
  sdCalls,            \* number of Shutdown() calls started
  sdLeft              \* <<state, cv waiters>> as the last call left them;
                      \* <<>> once another thread has moved since the
                      \* first call started

syncVars == <<renderStallState, mutex, cvWaiters>>
pcVars == <<wpc, qpc, gpc>>
qtVars == <<queue, connected>>
rendererVars == <<initialized, textureId, textureSize, textureDirty>>
lockVars == <<inputMutex, writing, seen, texMutex>>
inputVars == <<input, dispatched, keySent, toScene, written, lockVars>>
engineVars ==
  <<engineCfg, gridEnable, scene, camera, initCalls, peer, sceneDestroys>>
itemVars == <<itemW, itemH, sizeRequest>>
nodeVars == <<nodeId, nodeSize, texture, dirtyMarks, wrappers, newId, sz>>
histVars == <<observed, sdWaiters, sdMid, cyclesInCall, published,
              consumed, pubHandles, handle, emitCount, waitCalls, takenId>>
countVars == <<prepareCount, inputCount, resizeCount>>
callVars == <<sdCalls, sdLeft>>

vars == <<syncVars, pcVars, qtVars, rendererVars, inputVars, engineVars,
          itemVars, nodeVars, histVars, countVars, callVars>>

\* --------------------------------------------------------------- helpers
Max(a, b) == IF a >= b THEN a ELSE b

\* conversion of a qreal item dimension to the int that QSize holds:
\* truncation toward zero
ToInt(v) == IF v >= 0 THEN v \div ItemUnit ELSE -((-v) \div ItemUnit)

\* QSize(w, h)
QSize(w, h) == [w |-> w, h |-> h]

\* RenderSync::RenderStallState
RenderStallState ==
  {"WorkerCanProceed", "WorkerIsProceeding", "QtCanProceed", "ShuttingDown"}

\* predicate of the cv.wait in WaitForQtThreadAndBlock
WorkerWaitPred ==
  renderStallState = "WorkerCanProceed" \/ renderStallState = "ShuttingDown"

\* predicate of both cv.wait calls in WaitForWorkerThread
QtWaitPred ==
  renderStallState = "QtCanProceed" \/ renderStallState = "ShuttingDown"

\* std::condition_variable::notify_one: wakes one waiting thread, if any
NotifyOne ==
  IF cvWaiters = {}
    THEN cvWaiters' = cvWaiters
    ELSE \E t \in cvWaiters : cvWaiters' = cvWaiters \ {t}

\* thread t is inside a cv.wait of RenderSync, the mutex released
Blocked(t) ==
  IF t = "worker" THEN wpc = "r_blocked"
                  ELSE qpc \in {"q_blocked1", "q_blocked2"}

\* a spurious wake-up, which std::condition_variable::wait permits
SpuriousWake ==
  /\ \E t \in cvWaiters : cvWaiters' = cvWaiters \ {t}
  /\ sdLeft' = <<>>
  /\ UNCHANGED <<sdCalls, renderStallState, mutex, pcVars, qtVars,
                 rendererVars,
                 inputVars, engineVars, itemVars, nodeVars, histVars,
                 countVars>>

\* ------------------------------------------------------- screen to scene
\* what the ray query set from the camera may answer for a screen position:
\* ClosestPoint() (valid or not, and its point), Origin() and Direction()
RayResults ==
  [hit : BOOLEAN, point : {<<1, 2, 3>>}, origin : {<<0, 0, 1>>},
   dir : {<<0, 0, -1>>}]

\* distance of the point returned when nothing is hit
FallbackDistance == 10

\* ScreenToScene returning the query's point whether or not it is valid
ScreenToSceneNoFallback(r) == r.point

\* IgnRenderer::ScreenToScene, given the answer r of the ray query
ScreenToScene(r) ==
  IF r.hit THEN r.point
  ELSE [i \in 1..3 |-> r.origin[i] + r.dir[i] * FallbackDistance]

\* ------------------------------------------------------- input dispatch
\* ignition::common::MouseEvent as far as the dispatch reads it
MouseButtons == {"NO_BUTTON", "LEFT", "RIGHT"}
MouseTypes == {"NO_EVENT", "MOVE", "PRESS", "RELEASE", "SCROLL"}
MouseEvent(b, t, d) == [button |-> b, type |-> t, dragging |-> d]
KeyTypes == {"NO_EVENT", "PRESS", "RELEASE"}

\* the mouse events the GUI thread writes in the explored runs
MouseInputs ==
  { MouseEvent("LEFT", "RELEASE", FALSE), MouseEvent("RIGHT", "RELEASE", TRUE),
    MouseEvent("LEFT", "PRESS", FALSE), MouseEvent("NO_BUTTON", "SCROLL", FALSE),
    MouseEvent("NO_BUTTON", "MOVE", FALSE) }

\* the hover positions and the dropped texts the GUI thread writes
HoverInputs == {2}
DropInputs == {"b"}

\* Each Broadcast* takes s = [in |-> input state, out |-> events sent so far]
HoverPosKeepsDirty(s) ==
  IF ~s.in.hoverDirty THEN s
  ELSE [in |-> s.in, out |-> s.out \o <<"HoverToScene", "HoverOnScene">>]

BroadcastHoverPos(s) ==
  IF ~s.in.hoverDirty THEN s
  ELSE [in |-> [s.in EXCEPT !.hoverDirty = FALSE],
        out |-> s.out \o <<"HoverToScene", "HoverOnScene">>]

BroadcastDrag(s) ==
  IF ~s.in.mouseDirty THEN s
  ELSE IF ~s.in.mouseEvent.dragging THEN s
  ELSE [in |-> [s.in EXCEPT !.mouseDirty = FALSE],
        out |-> Append(s.out, "DragOnScene")]

BroadcastMousePress(s) ==
  IF ~s.in.mouseDirty THEN s
  ELSE IF s.in.mouseEvent.type # "PRESS" THEN s
  ELSE [in |-> [s.in EXCEPT !.mouseDirty = FALSE],
        out |-> Append(s.out, "MousePressOnScene")]

LeftClickAnyButton(s) ==
  IF ~s.in.mouseDirty THEN s
  ELSE IF s.in.mouseEvent.type # "RELEASE" THEN s
  ELSE [in |-> [s.in EXCEPT !.mouseDirty = FALSE],
        out |-> s.out \o <<"LeftClickToScene", "LeftClickOnScene">>]

BroadcastLeftClick(s) ==
  IF ~s.in.mouseDirty THEN s
  ELSE IF s.in.mouseEvent.button # "LEFT" \/ s.in.mouseEvent.type # "RELEASE"
    THEN s
  ELSE [in |-> [s.in EXCEPT !.mouseDirty = FALSE],
        out |-> s.out \o <<"LeftClickToScene", "LeftClickOnScene">>]

BroadcastRightClick(s) ==
  IF ~s.in.mouseDirty THEN s
  ELSE IF s.in.mouseEvent.button # "RIGHT" \/ s.in.mouseEvent.type # "RELEASE"
    THEN s
  ELSE [in |-> [s.in EXCEPT !.mouseDirty = FALSE],
        out |-> s.out \o <<"RightClickToScene", "RightClickOnScene">>]

BroadcastScroll(s) ==
  IF ~s.in.mouseDirty THEN s
  ELSE IF s.in.mouseEvent.type # "SCROLL" THEN s
  ELSE [in |-> [s.in EXCEPT !.mouseDirty = FALSE],
        out |-> Append(s.out, "ScrollOnScene")]

KeyPressNotReset(s) ==
  IF s.in.keyType # "PRESS" THEN s
  ELSE [in |-> s.in, out |-> Append(s.out, "KeyPressOnScene")]

BroadcastKeyPress(s) ==
  IF s.in.keyType # "PRESS" THEN s
  ELSE [in |-> [s.in EXCEPT !.keyType = "NO_EVENT"],
        out |-> Append(s.out, "KeyPressOnScene")]

BroadcastKeyRelease(s) ==
  IF s.in.keyType # "RELEASE" THEN s
  ELSE [in |-> [s.in EXCEPT !.keyType = "NO_EVENT"],
        out |-> Append(s.out, "KeyReleaseOnScene")]

BroadcastDrop(s) ==
  IF ~s.in.dropDirty THEN s
  ELSE [in |-> [s.in EXCEPT !.dropDirty = FALSE],
        out |-> Append(s.out, "DropOnScene")]

\* the events built from a ScreenToScene result: BroadcastHoverPos,
\* BroadcastLeftClick and BroadcastRightClick call it
IsToSceneEvent(e) ==
  e \in {"HoverToScene", "LeftClickToScene", "RightClickToScene"}

\* the events BroadcastKeyPress and BroadcastKeyRelease send
IsKeyEvent(e) == e \in {"KeyPressOnScene", "KeyReleaseOnScene"}

\* HandleMouseEvent without the final mouseDirty = false
HandleMouseEventKeepsUnmatched(in) ==
  LET s0 == [in |-> in, out |-> <<>>]
      s1 == BroadcastHoverPos(s0)
      s2 == BroadcastDrag(s1)
      s3 == BroadcastMousePress(s2)
      s4 == BroadcastLeftClick(s3)
      s5 == BroadcastRightClick(s4)
      s6 == BroadcastScroll(s5)
      s7 == BroadcastKeyPress(s6)
      s8 == BroadcastKeyRelease(s7)
      s9 == BroadcastDrop(s8)
  IN [in |-> s9.in, out |-> s9.out]

\* HandleMouseEvent trying the clicks before the drag and the press
HandleMouseEventClicksFirst(in) ==
  LET s0 == [in |-> in, out |-> <<>>]
      s1 == BroadcastHoverPos(s0)
      s2 == BroadcastLeftClick(s1)
      s3 == BroadcastRightClick(s2)
      s4 == BroadcastDrag(s3)
      s5 == BroadcastMousePress(s4)
      s6 == BroadcastScroll(s5)
      s7 == BroadcastKeyPress(s6)
      s8 == BroadcastKeyRelease(s7)
      s9 == BroadcastDrop(s8)
  IN [in |-> [s9.in EXCEPT !.mouseDirty = FALSE], out |-> s9.out]

\* the nine Broadcast* calls of HandleMouseEvent, in its order
Broadcasts(in) ==
  LET s0 == [in |-> in, out |-> <<>>]
      s1 == BroadcastHoverPos(s0)
      s2 == BroadcastDrag(s1)
      s3 == BroadcastMousePress(s2)
      s4 == BroadcastLeftClick(s3)
      s5 == BroadcastRightClick(s4)
      s6 == BroadcastScroll(s5)
      s7 == BroadcastKeyPress(s6)
      s8 == BroadcastKeyRelease(s7)
  IN BroadcastDrop(s8)

\* IgnRenderer::HandleMouseEvent, run under IgnRenderer::Implementation::mutex
HandleMouseEvent(in) ==
  LET s0 == [in |-> in, out |-> <<>>]
      s1 == BroadcastHoverPos(s0)
      s2 == BroadcastDrag(s1)
      s3 == BroadcastMousePress(s2)
      s4 == BroadcastLeftClick(s3)
      s5 == BroadcastRightClick(s4)
      s6 == BroadcastScroll(s5)
      s7 == BroadcastKeyPress(s6)
      s8 == BroadcastKeyRelease(s7)
      s9 == BroadcastDrop(s8)
  IN [in |-> [s9.in EXCEPT !.mouseDirty = FALSE], out |-> s9.out]

\* ------------------------------------------------------------------- Init
\* RenderWindowItem::Ready: textureSize from the item size, at least 1 x 1
ReadySize(w, h) == QSize(ToInt(Max(w, ItemUnit)), ToInt(Max(h, ItemUnit)))

\* IgnRenderer::Implementation as constructed: nothing pending
NoInput ==
  [mouseDirty |-> FALSE, hoverDirty |-> FALSE, dropDirty |-> FALSE,
   mouseEvent |-> MouseEvent("NO_BUTTON", "NO_EVENT", FALSE),
   keyType |-> "NO_EVENT", hoverPos |-> 0, dropText |-> ""]

\* the events the GUI thread wrote to leave the input in pending
WrittenIn(in) ==
  [mouse |-> IF in.mouseDirty THEN <<in.mouseEvent>> ELSE <<>>,
   hover |-> IF in.hoverDirty THEN <<in.hoverPos>> ELSE <<>>,
   drop |-> IF in.dropDirty THEN <<in.dropText>> ELSE <<>>,
   key |-> IF in.keyType # "NO_EVENT" THEN <<in.keyType>> ELSE <<>>]

\* State once updatePaintNode has created the TextureNode, made the four
\* connections and queued the first RenderNext, the GUI thread having left
\* the pending input in
InitState(in) ==
  /\ renderStallState = "QtCanProceed"
  /\ mutex = "free"
  /\ cvWaiters = {}
  /\ wpc = "w_idle" /\ qpc = "q_idle" /\ gpc = "g_idle"
  /\ queue = <<"RenderNext">>
  /\ connected = TRUE
  /\ initialized = FALSE
  /\ textureId = 0
  /\ \E s \in InitItemSizes :
        /\ itemW = s[1] /\ itemH = s[2]
        /\ textureSize = ReadySize(s[1], s[2])
  /\ sizeRequest = QSize(-1, -1)
  /\ textureDirty = FALSE
  /\ input = in
  /\ written = WrittenIn(in)
  /\ inputMutex = "free"
  /\ writing = "none"
  /\ seen = in
  /\ texMutex = "free"
  /\ dispatched = <<>>
  /\ keySent = 0
  /\ toScene = [ray |-> [hit |-> TRUE, point |-> <<0, 0, 0>>,
                         origin |-> <<0, 0, 0>>, dir |-> <<0, 0, 0>>],
                pos |-> <<0, 0, 0>>]
  /\ engineCfg \in {"ok", "noEngine", "noGrid"}
  /\ gridEnable = TRUE
  /\ initCalls = 0
  /\ scene = [exists |-> FALSE, grid |-> FALSE, gridGeom |-> FALSE, sensors |-> 0]
  /\ sceneDestroys = 0
  /\ camera = [exists |-> FALSE, w |-> 0, h |-> 0, aspect |-> 0, glId |-> 0,
               frames |-> 0, rebuilds |-> 0]
  /\ nodeId = 0
  /\ nodeSize = QSize(-1, -1)
  /\ texture = [id |-> 0, size |-> QSize(1, 1)]
  /\ dirtyMarks = 0
  /\ wrappers = 1
  /\ newId = 0
  /\ sz = QSize(-1, -1)
  /\ observed = "none"
  /\ sdWaiters = {}
  /\ sdMid = "no"
  /\ cyclesInCall = 0
  /\ published = 0 /\ consumed = 0
  /\ pubHandles = {}
  /\ handle = "none"
  /\ emitCount = 0 /\ waitCalls = 0 /\ takenId = 0
  /\ prepareCount = 0 /\ inputCount = 0 /\ resizeCount = 0
  /\ sdCalls = 0
  /\ sdLeft = <<>>

\* no input event arrived before the first frame, and no other item shares
\* the scene
Init == InitState(NoInput) /\ peer = "none"

\* ----------------------------------------------------------- worker thread
\* IgnRenderer::Initialize, entered with initialized = FALSE
Initialize ==
  /\ initCalls' = initCalls + 1
  /\ IF engineCfg = "noEngine"
       THEN \* engine not supported: return
            UNCHANGED <<initialized, textureId, scene, camera>>
     ELSE IF gridEnable /\ ~scene.grid /\ engineCfg = "noGrid"
       THEN \* scene and grid visual created, CreateGrid failed: return
            /\ scene' = [scene EXCEPT !.exists = TRUE, !.grid = TRUE]
            /\ UNCHANGED <<initialized, textureId, camera>>
     ELSE \E id \in TexIds :
            /\ scene' = [exists |-> TRUE,
                         grid |-> scene.grid \/ gridEnable,
                         gridGeom |-> scene.gridGeom
                                        \/ (gridEnable /\ ~scene.grid),
                         sensors |-> scene.sensors + 1]
            /\ camera' = [exists |-> TRUE, w |-> textureSize.w,
                          h |-> textureSize.h, aspect |-> camera.aspect,
                          glId |-> id, frames |-> 0, rebuilds |-> 1]
            /\ textureId' = id
            /\ initialized' = TRUE

\* RenderNext calling Render whether or not the renderer is initialized
RenderNextIgnoresFailure ==
  /\ wpc = "w_idle"
  /\ queue # <<>> /\ Head(queue) = "RenderNext"
  /\ queue' = Tail(queue)
  /\ IF ~initialized
       THEN Initialize
       ELSE UNCHANGED <<initialized, textureId, scene, camera, initCalls>>
  /\ wpc' = "r_lock"
  /\ sdLeft' = <<>>
  /\ UNCHANGED <<sdCalls, syncVars, qpc, gpc, connected, textureSize, textureDirty,
                 inputVars, engineCfg, peer, sceneDestroys, gridEnable, itemVars, nodeVars,
                 histVars, countVars>>

\* RenderThread::RenderNext up to the call of IgnRenderer::Render
RenderNext ==
  /\ wpc = "w_idle"
  /\ queue # <<>> /\ Head(queue) = "RenderNext"
  /\ queue' = Tail(queue)
  /\ IF ~initialized
       THEN Initialize
       ELSE UNCHANGED <<initialized, textureId, scene, camera, initCalls>>
  /\ wpc' = IF initialized' THEN "r_lock" ELSE "w_idle"
  /\ sdLeft' = <<>>
  /\ UNCHANGED <<sdCalls, syncVars, qpc, gpc, connected, textureSize, textureDirty,
                 inputVars, engineCfg, peer, sceneDestroys, gridEnable, itemVars, nodeVars,
                 histVars, countVars>>

\* IgnRenderer::Render: std::unique_lock<std::mutex> lock(_renderSync->mutex)
RenderLock ==
  /\ wpc = "r_lock"
  /\ mutex = "free"
  /\ mutex' = "worker"
  /\ wpc' = "r_wait"
  /\ sdLeft' = <<>>
  /\ UNCHANGED <<sdCalls, renderStallState, cvWaiters, qpc, gpc, qtVars, rendererVars,
                 inputVars, engineVars, itemVars, nodeVars, histVars,
                 countVars>>

\* RenderSync::WaitForQtThreadAndBlock: one evaluation of the wait predicate,
\* then either the assignment after the wait or the wait itself
WaitForQtThreadAndBlock ==
  /\ wpc = "r_wait"
  /\ IF WorkerWaitPred
       THEN /\ renderStallState' = "WorkerIsProceeding"
            /\ observed' = renderStallState
            /\ sdMid' = IF sdMid = "next" THEN "done"
                        ELSE IF sdMid = "no" /\ gpc = "g_shutdown" THEN "cycle"
                        ELSE sdMid
            /\ wpc' = "r_body"
            /\ UNCHANGED <<mutex, cvWaiters>>
       ELSE /\ mutex' = "free"
            /\ cvWaiters' = cvWaiters \cup {"worker"}
            /\ wpc' = "r_blocked"
            /\ UNCHANGED <<renderStallState, observed, sdMid>>
  /\ sdLeft' = <<>>
  /\ UNCHANGED <<sdCalls, qpc, gpc, qtVars, rendererVars, inputVars, engineVars,
                 itemVars, nodeVars, sdWaiters, cyclesInCall,
                 published, consumed, pubHandles, handle, emitCount, waitCalls, takenId,
                 countVars>>

\* the worker, notified, re-acquires the mutex inside cv.wait
WorkerWake ==
  /\ wpc = "r_blocked"
  /\ "worker" \notin cvWaiters
  /\ mutex = "free"
  /\ mutex' = "worker"
  /\ wpc' = "r_wait"
  /\ sdLeft' = <<>>
  /\ UNCHANGED <<sdCalls, renderStallState, cvWaiters, qpc, gpc, qtVars, rendererVars,
                 inputVars, engineVars, itemVars, nodeVars, histVars,
                 countVars>>

\* IgnRenderer::Render: the textureDirty branch and the read of the GL id.
\* width() / height() divides two ints; with height() = 0 the behaviour is
\* undefined: the division traps (the process dies inside Render) or yields
\* some value, here 0.
RenderResize ==
  /\ wpc = "r_body"
  /\ IF ~textureDirty
       THEN /\ camera' = camera
            /\ textureDirty' = FALSE
            /\ textureId' = camera.glId
            /\ wpc' = "r_input"
     ELSE IF textureSize.h # 0
       THEN /\ \E id \in TexIds :
                 camera' = [camera EXCEPT
                              !.w = textureSize.w,
                              !.h = textureSize.h,
                              !.aspect = textureSize.w \div textureSize.h,
                              !.glId = id,
                              !.rebuilds = @ + 1]
            /\ textureDirty' = FALSE
            /\ textureId' = camera'.glId
            /\ wpc' = "r_input"
     ELSE \/ /\ camera' = [camera EXCEPT !.w = textureSize.w,
                                          !.h = textureSize.h]
             /\ wpc' = "w_crashed"
             /\ UNCHANGED <<textureDirty, textureId>>
          \/ /\ \E id \in TexIds :
                   camera' = [camera EXCEPT !.w = textureSize.w,
                                            !.h = textureSize.h,
                                            !.aspect = 0,
                                            !.glId = id,
                                            !.rebuilds = @ + 1]
             /\ textureDirty' = FALSE
             /\ textureId' = camera'.glId
             /\ wpc' = "r_input"
  /\ sdLeft' = <<>>
  /\ UNCHANGED <<sdCalls, syncVars, qpc, gpc, qtVars, initialized, textureSize,
                 inputVars, engineCfg, peer, sceneDestroys, gridEnable, scene, initCalls, itemVars,
                 nodeVars,
                 histVars, countVars>>

\* IgnRenderer::Render: this->HandleMouseEvent()
RenderInput ==
  /\ wpc = "r_input"
  /\ input' = HandleMouseEvent(input).in
  /\ dispatched' = HandleMouseEvent(input).out
  /\ keySent' = keySent + Len(SelectSeq(dispatched', IsKeyEvent))
  /\ IF SelectSeq(dispatched', IsToSceneEvent) # <<>>
       THEN \E r \in RayResults :
              toScene' = [ray |-> r, pos |-> ScreenToScene(r)]
       ELSE toScene' = toScene
  /\ written' = WrittenIn(NoInput)
  /\ seen' = input'
  /\ UNCHANGED <<inputMutex, writing, texMutex>>
  /\ wpc' = "r_update"
  /\ sdLeft' = <<>>
  /\ UNCHANGED <<sdCalls, syncVars, qpc, gpc, qtVars, rendererVars, engineVars,
                 itemVars, nodeVars, histVars, countVars>>

\* HandleMouseEvent step by step.  First step: lock_guard takes
\* Implementation::mutex and the nine Broadcast* functions run
HandleMouseEventBroadcasts ==
  /\ wpc = "r_input"
  /\ inputMutex = "free"
  /\ inputMutex' = "worker"
  /\ input' = Broadcasts(input).in
  /\ dispatched' = Broadcasts(input).out
  /\ keySent' = keySent + Len(SelectSeq(dispatched', IsKeyEvent))
  /\ IF SelectSeq(dispatched', IsToSceneEvent) # <<>>
       THEN \E r \in RayResults :
              toScene' = [ray |-> r, pos |-> ScreenToScene(r)]
       ELSE toScene' = toScene
  /\ written' = WrittenIn(NoInput)
  /\ seen' = input'
  /\ wpc' = "r_clear"
  /\ sdLeft' = <<>>
  /\ UNCHANGED <<writing, texMutex, sdCalls, syncVars, qpc, gpc, qtVars, rendererVars,
                 engineVars, itemVars, nodeVars, histVars, countVars>>

\* Second step: mouseDirty = false, then the lock_guard releases the mutex
HandleMouseEventClear ==
  /\ wpc = "r_clear"
  /\ input' = [input EXCEPT !.mouseDirty = FALSE]
  /\ inputMutex' = "free"
  /\ wpc' = "r_update"
  /\ sdLeft' = <<>>
  /\ UNCHANGED <<dispatched, keySent, toScene, written, writing, seen,
                 texMutex, sdCalls,
                 syncVars, qpc, gpc, qtVars, rendererVars, engineVars,
                 itemVars, nodeVars, histVars, countVars>>

\* IgnRenderer::Render: camera->Update() renders one frame
RenderUpdate ==
  /\ wpc = "r_update"
  /\ camera' = [camera EXCEPT !.frames = @ + 1]
  /\ wpc' = "r_release"
  /\ sdLeft' = <<>>
  /\ UNCHANGED <<sdCalls, syncVars, qpc, gpc, qtVars, rendererVars, inputVars,
                 engineCfg, peer, sceneDestroys, gridEnable, scene, initCalls,
                 itemVars, nodeVars,
                 histVars,
                 countVars>>

\* ReleaseQtThreadFromBlock writing the wrong state constant
ReleaseWrongState ==
  /\ wpc = "r_release"
  /\ renderStallState' = "WorkerCanProceed"
  /\ mutex' = "free"
  /\ cyclesInCall' = cyclesInCall + 1
  /\ handle' = "rendered"
  /\ sdMid' = IF sdMid = "cycle" THEN "next" ELSE sdMid
  /\ wpc' = "r_notify"
  /\ sdLeft' = <<>>
  /\ UNCHANGED <<sdCalls, cvWaiters, qpc, gpc, qtVars, rendererVars, inputVars,
                 engineVars, itemVars, nodeVars, observed, sdWaiters,
                 published, consumed, pubHandles, emitCount, waitCalls,
                 takenId, countVars>>

\* RenderSync::ReleaseQtThreadFromBlock: the state write and _lock.unlock()
ReleaseQtThreadFromBlock ==
  /\ wpc = "r_release"
  /\ renderStallState' = "QtCanProceed"
  /\ mutex' = "free"
  /\ cyclesInCall' = cyclesInCall + 1
  /\ handle' = "rendered"
  /\ sdMid' = IF sdMid = "cycle" THEN "next" ELSE sdMid
  /\ wpc' = "r_notify"
  /\ sdLeft' = <<>>
  /\ UNCHANGED <<sdCalls, cvWaiters, qpc, gpc, qtVars, rendererVars, inputVars,
                 engineVars, itemVars, nodeVars, observed, sdWaiters,
                 published, consumed, pubHandles, emitCount, waitCalls,
                 takenId, countVars>>

\* ReleaseQtThreadFromBlock without the notify_one
ReleaseWithoutNotify ==
  /\ wpc = "r_notify"
  /\ wpc' = "rn_emit"
  /\ sdLeft' = <<>>
  /\ UNCHANGED <<sdCalls, syncVars, qpc, gpc, qtVars, rendererVars, inputVars,
                 engineVars, itemVars, nodeVars, histVars, countVars>>

\* RenderSync::ReleaseQtThreadFromBlock: this->cv.notify_one()
ReleaseNotify ==
  /\ wpc = "r_notify"
  /\ NotifyOne
  /\ wpc' = "rn_emit"
  /\ sdLeft' = <<>>
  /\ UNCHANGED <<sdCalls, renderStallState, mutex, qpc, gpc, qtVars, rendererVars,
                 inputVars, engineVars, itemVars, nodeVars, histVars,
                 countVars>>

\* TextureNode::NewTexture(_id, _size), the slot of TextureReady
NewTexture(id, size) ==
  /\ nodeId' = id
  /\ nodeSize' = size
  /\ published' = published + 1
  /\ pubHandles' = pubHandles \cup {[id |-> id, size |-> size]}
  /\ handle' = "published"

\* RenderThread::RenderNext: emit TextureReady(textureId, textureSize)
TextureReady ==
  /\ wpc = "rn_emit"
  /\ IF connected
       THEN NewTexture(textureId, textureSize)
       ELSE UNCHANGED <<nodeId, nodeSize, published, pubHandles, handle>>
  /\ observed' = "none"
  /\ wpc' = "w_idle"
  /\ sdLeft' = <<>>
  /\ UNCHANGED <<sdCalls, syncVars, qpc, gpc, qtVars, rendererVars, inputVars,
                 engineVars, itemVars, texture, dirtyMarks, wrappers, newId,
                 sz, sdWaiters, sdMid, cyclesInCall, consumed, emitCount,
                 waitCalls, takenId, countVars>>

\* TextureReady and NewTexture step by step.  RenderNext emits TextureReady,
\* a direct connection: NewTexture runs on the worker thread and takes
\* TextureNode::mutex
TextureReadyEmit ==
  /\ wpc = "rn_emit"
  /\ IF connected
       THEN /\ texMutex = "free"
            /\ texMutex' = "worker"
            /\ wpc' = "nt_store"
            /\ observed' = observed
       ELSE /\ texMutex' = texMutex
            /\ wpc' = "w_idle"
            /\ observed' = "none"
  /\ sdLeft' = <<>>
  /\ UNCHANGED <<sdCalls, syncVars, qpc, gpc, qtVars, rendererVars, input,
                 dispatched, keySent, toScene, written, inputMutex, writing,
                 seen, engineVars, itemVars, nodeVars, sdWaiters, sdMid,
                 cyclesInCall, published, consumed, pubHandles, handle,
                 emitCount, waitCalls, takenId, countVars>>

\* NewTexture stores the id and the size and releases TextureNode::mutex
NewTextureStore ==
  /\ wpc = "nt_store"
  /\ NewTexture(textureId, textureSize)
  /\ texMutex' = "free"
  /\ observed' = "none"
  /\ wpc' = "w_idle"
  /\ sdLeft' = <<>>
  /\ UNCHANGED <<sdCalls, syncVars, qpc, gpc, qtVars, rendererVars, input,
                 dispatched, keySent, toScene, written, inputMutex, writing,
                 seen, engineVars, itemVars, texture, dirtyMarks, wrappers,
                 newId, sz, sdWaiters, sdMid, cyclesInCall, consumed,
                 emitCount, waitCalls, takenId, countVars>>

\* SizeChanged run as a direct call, wherever the worker thread is
SizeChangedDirect ==
  /\ queue # <<>> /\ Head(queue) = "SizeChanged"
  /\ queue' = Tail(queue)
  /\ IF itemW <= 0 \/ itemH <= 0
       THEN UNCHANGED <<textureSize, textureDirty, sizeRequest>>
       ELSE /\ textureSize' = QSize(ToInt(itemW), ToInt(itemH))
            /\ textureDirty' = TRUE
            /\ sizeRequest' = QSize(ToInt(itemW), ToInt(itemH))
  /\ sdLeft' = <<>>
  /\ UNCHANGED <<sdCalls, syncVars, pcVars, connected, initialized, textureId,
                 inputVars, engineVars, itemW, itemH, nodeVars, histVars,
                 countVars>>

\* RenderThread::SizeChanged, a queued slot run by the worker thread
SizeChanged ==
  /\ wpc = "w_idle"
  /\ queue # <<>> /\ Head(queue) = "SizeChanged"
  /\ queue' = Tail(queue)
  /\ IF itemW <= 0 \/ itemH <= 0
       THEN UNCHANGED <<textureSize, textureDirty, sizeRequest>>
       ELSE /\ textureSize' = QSize(ToInt(itemW), ToInt(itemH))
            /\ textureDirty' = TRUE
            /\ sizeRequest' = QSize(ToInt(itemW), ToInt(itemH))
  /\ sdLeft' = <<>>
  /\ UNCHANGED <<sdCalls, syncVars, pcVars, connected, initialized, textureId,
                 inputVars, engineVars, itemW, itemH, nodeVars, histVars,
                 countVars>>

\* IgnRenderer::Destroy
Destroy ==
  IF engineCfg = "noEngine" \/ ~scene.exists
    THEN UNCHANGED <<scene, camera, sceneDestroys>>
    ELSE LET left == IF camera.exists THEN scene.sensors - 1
                                       ELSE scene.sensors
         IN /\ camera' = [camera EXCEPT !.exists = FALSE]
            /\ sceneDestroys' = IF left = 0 THEN sceneDestroys + 1
                                            ELSE sceneDestroys
            /\ scene' = IF left = 0
                          THEN [exists |-> FALSE, grid |-> FALSE,
                                gridGeom |-> FALSE, sensors |-> 0]
                          ELSE [scene EXCEPT !.sensors = left]

\* RenderThread::ShutDown, a queued slot run by the worker thread
ShutDown ==
  /\ wpc = "w_idle"
  /\ queue # <<>> /\ Head(queue) = "ShutDown"
  /\ queue' = Tail(queue)
  /\ Destroy
  /\ wpc' = "w_exited"
  /\ sdLeft' = <<>>
  /\ UNCHANGED <<sdCalls, syncVars, qpc, gpc, connected, rendererVars, inputVars,
                 engineCfg, peer, gridEnable, initCalls, itemVars, nodeVars,
                 histVars,
                 countVars>>

\* ------------------------------------------------------ scene-graph thread
\* PrepareNode that reads the pending id without clearing it
PrepareNodeKeepsId ==
  /\ qpc = "q_idle"
  /\ connected
  /\ prepareCount < MaxPrepare
  /\ newId' = nodeId
  /\ sz' = nodeSize
  /\ nodeId' = nodeId
  /\ consumed' = IF nodeId # 0 THEN consumed + 1 ELSE consumed
  /\ handle' = IF nodeId # 0 /\ handle = "published" THEN "taken" ELSE handle
  /\ takenId' = nodeId
  /\ emitCount' = 0
  /\ waitCalls' = 0
  /\ prepareCount' = prepareCount + 1
  /\ qpc' = "q_swap"
  /\ sdLeft' = <<>>
  /\ UNCHANGED <<sdCalls, syncVars, wpc, gpc, qtVars, rendererVars, inputVars,
                 engineVars, itemVars, nodeSize, texture, dirtyMarks, wrappers,
                 observed, sdWaiters, sdMid, cyclesInCall, published,
                 pubHandles, inputCount, resizeCount>>

\* PrepareNode step by step: this->mutex.lock()
PrepareNodeLock ==
  /\ qpc = "q_idle"
  /\ connected
  /\ prepareCount < MaxLockFrames
  /\ texMutex = "free"
  /\ texMutex' = "qt"
  /\ prepareCount' = prepareCount + 1
  /\ qpc' = "q_take"
  /\ sdLeft' = <<>>
  /\ UNCHANGED <<sdCalls, syncVars, wpc, gpc, qtVars, rendererVars, input,
                 dispatched, keySent, toScene, written, inputMutex, writing,
                 seen, engineVars, itemVars, nodeVars, histVars, inputCount,
                 resizeCount>>

\* PrepareNode reading the id and the size and keeping TextureNode::mutex
PrepareNodeTakeHolding ==
  /\ qpc = "q_take"
  /\ newId' = nodeId
  /\ sz' = nodeSize
  /\ nodeId' = 0
  /\ texMutex' = texMutex
  /\ consumed' = IF nodeId # 0 THEN consumed + 1 ELSE consumed
  /\ handle' = IF nodeId # 0 /\ handle = "published" THEN "taken" ELSE handle
  /\ takenId' = nodeId
  /\ emitCount' = 0
  /\ waitCalls' = 0
  /\ qpc' = "q_swap"
  /\ sdLeft' = <<>>
  /\ UNCHANGED <<sdCalls, syncVars, wpc, gpc, qtVars, rendererVars, input,
                 dispatched, keySent, toScene, written, inputMutex, writing,
                 seen, engineVars, itemVars, nodeSize, texture, dirtyMarks,
                 wrappers, observed, sdWaiters, sdMid, cyclesInCall,
                 published, pubHandles, countVars>>

\* PrepareNode: newId = id, sz = size, id = 0, this->mutex.unlock()
PrepareNodeTake ==
  /\ qpc = "q_take"
  /\ newId' = nodeId
  /\ sz' = nodeSize
  /\ nodeId' = 0
  /\ texMutex' = "free"
  /\ consumed' = IF nodeId # 0 THEN consumed + 1 ELSE consumed
  /\ handle' = IF nodeId # 0 /\ handle = "published" THEN "taken" ELSE handle
  /\ takenId' = nodeId
  /\ emitCount' = 0
  /\ waitCalls' = 0
  /\ qpc' = "q_swap"
  /\ sdLeft' = <<>>
  /\ UNCHANGED <<sdCalls, syncVars, wpc, gpc, qtVars, rendererVars, input,
                 dispatched, keySent, toScene, written, inputMutex, writing,
                 seen, engineVars, itemVars, nodeSize, texture, dirtyMarks,
                 wrappers, observed, sdWaiters, sdMid, cyclesInCall,
                 published, pubHandles, countVars>>

\* TextureNode::PrepareNode, the slot of QQuickWindow::beforeRendering:
\* take and clear the pending texture id under TextureNode::mutex
PrepareNode ==
  /\ qpc = "q_idle"
  /\ connected
  /\ prepareCount < MaxPrepare
  /\ newId' = nodeId
  /\ sz' = nodeSize
  /\ nodeId' = 0
  /\ consumed' = IF nodeId # 0 THEN consumed + 1 ELSE consumed
  /\ handle' = IF nodeId # 0 /\ handle = "published" THEN "taken" ELSE handle
  /\ takenId' = nodeId
  /\ emitCount' = 0
  /\ waitCalls' = 0
  /\ prepareCount' = prepareCount + 1
  /\ qpc' = "q_swap"
  /\ sdLeft' = <<>>
  /\ UNCHANGED <<sdCalls, syncVars, wpc, gpc, qtVars, rendererVars, inputVars,
                 engineVars, itemVars, nodeSize, texture, dirtyMarks, wrappers,
                 observed, sdWaiters, sdMid, cyclesInCall, published,
                 pubHandles, inputCount, resizeCount>>

\* TextureNode::PrepareNode: if (newId) replace the texture wrapper
PrepareSwap ==
  /\ qpc = "q_swap"
  /\ IF newId # 0
       THEN /\ texture' = [id |-> newId, size |-> sz]
            /\ wrappers' = (wrappers - 1) + 1
            /\ dirtyMarks' = dirtyMarks + 1
       ELSE UNCHANGED <<texture, wrappers, dirtyMarks>>
  /\ qpc' = "q_emit"
  /\ sdLeft' = <<>>
  /\ UNCHANGED <<sdCalls, syncVars, wpc, gpc, qtVars, rendererVars, inputVars,
                 engineVars, itemVars, nodeId, nodeSize, newId, sz, histVars,
                 countVars>>

\* PrepareNode emitting TextureInUse only for a new texture
TextureInUseIfNew ==
  /\ qpc = "q_emit"
  /\ emitCount' = IF newId # 0 THEN emitCount + 1 ELSE emitCount
  /\ queue' = IF connected /\ newId # 0 THEN Append(queue, "RenderNext")
                                         ELSE queue
  /\ qpc' = "q_lock1"
  /\ sdLeft' = <<>>
  /\ UNCHANGED <<sdCalls, syncVars, wpc, gpc, connected, rendererVars, inputVars,
                 engineVars, itemVars, nodeVars, observed, sdWaiters, sdMid,
                 cyclesInCall, published, consumed, pubHandles, handle,
                 waitCalls, takenId, countVars>>

\* TextureNode::PrepareNode: emit TextureInUse(&renderSync), queued to
\* RenderThread::RenderNext while the connection exists
TextureInUse ==
  /\ qpc = "q_emit"
  /\ emitCount' = emitCount + 1
  /\ queue' = IF connected THEN Append(queue, "RenderNext") ELSE queue
  /\ qpc' = "q_lock1"
  /\ sdLeft' = <<>>
  /\ UNCHANGED <<sdCalls, syncVars, wpc, gpc, connected, rendererVars, inputVars,
                 engineVars, itemVars, nodeVars, observed, sdWaiters, sdMid,
                 cyclesInCall, published, consumed, pubHandles, handle, waitCalls,
                 takenId, countVars>>

\* WaitForWorkerThread entered without taking the mutex
QtLockNotTaken ==
  /\ qpc = "q_lock1"
  /\ mutex' = mutex
  /\ waitCalls' = waitCalls + 1
  /\ cyclesInCall' = 0
  /\ qpc' = "q_wait1"
  /\ sdLeft' = <<>>
  /\ UNCHANGED <<sdCalls, renderStallState, cvWaiters, wpc, gpc, qtVars, rendererVars,
                 inputVars, engineVars, itemVars, nodeVars, observed,
                 sdWaiters, sdMid, published, consumed, pubHandles, handle, emitCount,
                 takenId, countVars>>

\* RenderSync::WaitForWorkerThread: std::unique_lock lock(this->mutex)
QtLock ==
  /\ qpc = "q_lock1"
  /\ mutex = "free"
  /\ mutex' = "qt"
  /\ waitCalls' = waitCalls + 1
  /\ cyclesInCall' = 0
  /\ qpc' = "q_wait1"
  /\ sdLeft' = <<>>
  /\ UNCHANGED <<sdCalls, renderStallState, cvWaiters, wpc, gpc, qtVars, rendererVars,
                 inputVars, engineVars, itemVars, nodeVars, observed,
                 sdWaiters, sdMid, published, consumed, pubHandles, handle, emitCount,
                 takenId, countVars>>

\* RenderSync::WaitForWorkerThread: first cv.wait, then the hand-off write
\* and lock.unlock()
QtHandoff ==
  /\ qpc = "q_wait1"
  /\ IF QtWaitPred
       THEN /\ renderStallState' = "WorkerCanProceed"
            /\ mutex' = "free"
            /\ qpc' = "q_notify"
            /\ UNCHANGED cvWaiters
       ELSE /\ mutex' = "free"
            /\ cvWaiters' = cvWaiters \cup {"qt"}
            /\ qpc' = "q_blocked1"
            /\ UNCHANGED renderStallState
  /\ sdLeft' = <<>>
  /\ UNCHANGED <<sdCalls, wpc, gpc, qtVars, rendererVars, inputVars, engineVars,
                 itemVars, nodeVars, histVars, countVars>>

\* WaitForWorkerThread without the notify_one between its two waits
QtNotifySkipped ==
  /\ qpc = "q_notify"
  /\ qpc' = "q_lock2"
  /\ sdLeft' = <<>>
  /\ UNCHANGED <<sdCalls, syncVars, wpc, gpc, qtVars, rendererVars, inputVars,
                 engineVars, itemVars, nodeVars, histVars, countVars>>

\* RenderSync::WaitForWorkerThread: cv.notify_one() waking the worker
QtNotify ==
  /\ qpc = "q_notify"
  /\ NotifyOne
  /\ qpc' = "q_lock2"
  /\ sdLeft' = <<>>
  /\ UNCHANGED <<sdCalls, renderStallState, mutex, wpc, gpc, qtVars, rendererVars,
                 inputVars, engineVars, itemVars, nodeVars, histVars,
                 countVars>>

\* RenderSync::WaitForWorkerThread: lock.lock()
QtRelock ==
  /\ qpc = "q_lock2"
  /\ mutex = "free"
  /\ mutex' = "qt"
  /\ qpc' = "q_wait2"
  /\ sdLeft' = <<>>
  /\ UNCHANGED <<sdCalls, renderStallState, cvWaiters, wpc, gpc, qtVars, rendererVars,
                 inputVars, engineVars, itemVars, nodeVars, histVars,
                 countVars>>

\* WaitForWorkerThread returning after the hand-off, without the second wait
QtWaitSkipped ==
  /\ qpc = "q_wait2"
  /\ mutex' = "free"
  /\ qpc' = "q_idle"
  /\ sdLeft' = <<>>
  /\ UNCHANGED <<sdCalls, renderStallState, cvWaiters, wpc, gpc, qtVars,
                 rendererVars, inputVars, engineVars, itemVars, nodeVars,
                 histVars, countVars>>

\* RenderSync::WaitForWorkerThread: second cv.wait; on success the function
\* returns (the lock's destructor unlocks) and PrepareNode returns
QtWaitDone ==
  /\ qpc = "q_wait2"
  /\ IF QtWaitPred
       THEN /\ mutex' = "free"
            /\ qpc' = "q_idle"
            /\ UNCHANGED cvWaiters
       ELSE /\ mutex' = "free"
            /\ cvWaiters' = cvWaiters \cup {"qt"}
            /\ qpc' = "q_blocked2"
  /\ sdLeft' = <<>>
  /\ UNCHANGED <<sdCalls, renderStallState, wpc, gpc, qtVars, rendererVars, inputVars,
                 engineVars, itemVars, nodeVars, histVars, countVars>>

\* the scene-graph thread, notified, re-acquires the mutex inside cv.wait
QtWake ==
  /\ qpc \in {"q_blocked1", "q_blocked2"}
  /\ "qt" \notin cvWaiters
  /\ mutex = "free"
  /\ mutex' = "qt"
  /\ qpc' = IF qpc = "q_blocked1" THEN "q_wait1" ELSE "q_wait2"
  /\ sdLeft' = <<>>
  /\ UNCHANGED <<sdCalls, renderStallState, cvWaiters, wpc, gpc, qtVars, rendererVars,
                 inputVars, engineVars, itemVars, nodeVars, histVars,
                 countVars>>

\* ------------------------------------------------- another item's renderer
\* IgnRenderer::Initialize of an item whose renderer has the same sceneName:
\* SceneByName finds the scene or CreateScene makes it, then the item's own
\* camera is created in it
PeerInitialize ==
  /\ peer = "created"
  /\ IF engineCfg = "noEngine"
       THEN UNCHANGED <<scene, peer>>
     ELSE IF gridEnable /\ ~scene.grid /\ engineCfg = "noGrid"
       THEN /\ scene' = [scene EXCEPT !.exists = TRUE, !.grid = TRUE]
            /\ peer' = peer
     ELSE /\ scene' = [exists |-> TRUE,
                        grid |-> scene.grid \/ gridEnable,
                        gridGeom |-> scene.gridGeom
                                       \/ (gridEnable /\ ~scene.grid),
                        sensors |-> scene.sensors + 1]
          /\ peer' = "rendering"
  /\ UNCHANGED <<callVars, syncVars, pcVars, qtVars, rendererVars, inputVars,
                 engineCfg, gridEnable, camera, initCalls, sceneDestroys,
                 itemVars, nodeVars, histVars, countVars>>

\* IgnRenderer::Destroy of that item, called by its RenderThread::ShutDown
PeerShutDown ==
  /\ peer \in {"created", "rendering"}
  /\ peer' = "gone"
  /\ IF engineCfg = "noEngine" \/ ~scene.exists
       THEN UNCHANGED <<scene, sceneDestroys>>
       ELSE LET left == IF peer = "rendering" THEN scene.sensors - 1
                                               ELSE scene.sensors
            IN /\ sceneDestroys' = IF left = 0 THEN sceneDestroys + 1
                                               ELSE sceneDestroys
               /\ scene' = IF left = 0
                             THEN [exists |-> FALSE, grid |-> FALSE,
                                   gridGeom |-> FALSE, sensors |-> 0]
                             ELSE [scene EXCEPT !.sensors = left]
  /\ UNCHANGED <<callVars, syncVars, pcVars, qtVars, rendererVars, inputVars,
                 engineCfg, gridEnable, camera, initCalls, itemVars, nodeVars,
                 histVars, countVars>>

\* ---------------------------------------------------------------- GUI thread
\* IgnRenderer::NewMouseEvent
NewMouseEventKeepsPending(e) ==
  /\ gpc = "g_idle"
  /\ inputCount < MaxInput
  /\ input' = IF input.mouseDirty THEN input
              ELSE [input EXCEPT !.mouseEvent = e, !.mouseDirty = TRUE]
  /\ written' = [written EXCEPT !.mouse = Append(@, e)]
  /\ inputCount' = inputCount + 1
  /\ UNCHANGED <<callVars, syncVars, pcVars, qtVars, rendererVars, dispatched,
                 keySent, toScene, lockVars, engineVars, itemVars, nodeVars, histVars,
                 prepareCount, resizeCount>>

NewMouseEvent(e) ==
  /\ gpc = "g_idle"
  /\ inputCount < MaxInput
  /\ input' = [input EXCEPT !.mouseEvent = e, !.mouseDirty = TRUE]
  /\ written' = [written EXCEPT !.mouse = Append(@, e)]
  /\ inputCount' = inputCount + 1
  /\ UNCHANGED <<callVars, syncVars, pcVars, qtVars, rendererVars, dispatched, keySent,
                 toScene, lockVars,
                 engineVars, itemVars, nodeVars, histVars, prepareCount,
                 resizeCount>>

\* IgnRenderer::NewHoverEvent
NewHoverEvent(hoverPos) ==
  /\ gpc = "g_idle"
  /\ inputCount < MaxInput
  /\ input' = [input EXCEPT !.hoverPos = hoverPos, !.hoverDirty = TRUE]
  /\ written' = [written EXCEPT !.hover = Append(@, hoverPos)]
  /\ inputCount' = inputCount + 1
  /\ UNCHANGED <<callVars, syncVars, pcVars, qtVars, rendererVars, dispatched, keySent,
                 toScene, lockVars,
                 engineVars, itemVars, nodeVars, histVars, prepareCount,
                 resizeCount>>

\* IgnRenderer::NewDropEvent
NewDropEvent(dropText) ==
  /\ gpc = "g_idle"
  /\ inputCount < MaxInput
  /\ input' = [input EXCEPT !.dropText = dropText, !.dropDirty = TRUE]
  /\ written' = [written EXCEPT !.drop = Append(@, dropText)]
  /\ inputCount' = inputCount + 1
  /\ UNCHANGED <<callVars, syncVars, pcVars, qtVars, rendererVars, dispatched, keySent,
                 toScene, lockVars,
                 engineVars, itemVars, nodeVars, histVars, prepareCount,
                 resizeCount>>

\* IgnRenderer::HandleKeyPress and HandleKeyRelease: both store the event
HandleKeyPress(t) ==
  /\ gpc = "g_idle"
  /\ inputCount < MaxInput
  /\ input' = [input EXCEPT !.keyType = t]
  /\ written' = [written EXCEPT !.key = Append(@, t)]
  /\ inputCount' = inputCount + 1
  /\ UNCHANGED <<callVars, syncVars, pcVars, qtVars, rendererVars, dispatched, keySent,
                 toScene, lockVars,
                 engineVars, itemVars, nodeVars, histVars, prepareCount,
                 resizeCount>>

\* the first step of an input function that would not take the mutex
StoreEventUnlocked(f, in) ==
  /\ gpc = "g_idle" /\ writing = "none"
  /\ inputCount < MaxInput
  /\ inputMutex' = inputMutex
  /\ input' = in
  /\ writing' = f
  /\ inputCount' = inputCount + 1
  /\ UNCHANGED <<callVars, syncVars, pcVars, qtVars, rendererVars, dispatched,
                 keySent, toScene, written, seen, texMutex, engineVars, itemVars,
                 nodeVars, histVars, prepareCount, resizeCount>>

\* The same four functions step by step.  First step of each: lock_guard
\* takes Implementation::mutex and the event is stored in its slot
StoreEvent(f, in) ==
  /\ gpc = "g_idle" /\ writing = "none"
  /\ inputCount < MaxInput
  /\ inputMutex = "free"
  /\ inputMutex' = "gui"
  /\ input' = in
  /\ writing' = f
  /\ inputCount' = inputCount + 1
  /\ UNCHANGED <<callVars, syncVars, pcVars, qtVars, rendererVars, dispatched,
                 keySent, toScene, written, seen, texMutex, engineVars, itemVars,
                 nodeVars, histVars, prepareCount, resizeCount>>

\* Second step of each: the dirty flag is set (HandleKeyPress: the modifiers
\* are copied, which the model does not carry), then the lock_guard releases
\* the mutex
FinishEvent(f, in, w) ==
  /\ writing = f
  /\ input' = in
  /\ written' = w
  /\ writing' = "none"
  /\ inputMutex' = "free"
  /\ UNCHANGED <<callVars, syncVars, pcVars, qtVars, rendererVars, dispatched,
                 keySent, toScene, seen, texMutex, engineVars, itemVars, nodeVars,
                 histVars, countVars>>

\* IgnRenderer::NewMouseEvent: mouseEvent = _e
NewMouseEventStore(e) ==
  StoreEvent("NewMouseEvent", [input EXCEPT !.mouseEvent = e])

\* IgnRenderer::NewMouseEvent: mouseDirty = true
NewMouseEventDirty ==
  FinishEvent("NewMouseEvent", [input EXCEPT !.mouseDirty = TRUE],
              [written EXCEPT !.mouse = Append(@, input.mouseEvent)])

\* IgnRenderer::NewHoverEvent: mouseHoverPos = _hoverPos
NewHoverEventStore(hoverPos) ==
  StoreEvent("NewHoverEvent", [input EXCEPT !.hoverPos = hoverPos])

\* IgnRenderer::NewHoverEvent: hoverDirty = true
NewHoverEventDirty ==
  FinishEvent("NewHoverEvent", [input EXCEPT !.hoverDirty = TRUE],
              [written EXCEPT !.hover = Append(@, input.hoverPos)])

\* IgnRenderer::NewDropEvent: dropText = _dropText, mouseDropPos = _dropPos
NewDropEventStore(dropText) ==
  StoreEvent("NewDropEvent", [input EXCEPT !.dropText = dropText])

\* IgnRenderer::NewDropEvent: dropDirty = true
NewDropEventDirty ==
  FinishEvent("NewDropEvent", [input EXCEPT !.dropDirty = TRUE],
              [written EXCEPT !.drop = Append(@, input.dropText)])

\* IgnRenderer::HandleKeyPress / HandleKeyRelease: keyEvent = _e
HandleKeyPressStore(t) ==
  StoreEvent("HandleKeyPress", [input EXCEPT !.keyType = t])

\* IgnRenderer::HandleKeyPress / HandleKeyRelease: SetControl, SetShift,
\* SetAlt on the mouse event
HandleKeyPressModifiers ==
  FinishEvent("HandleKeyPress", input,
              [written EXCEPT !.key = Append(@, input.keyType)])

\* A geometry change of the item: the new width and height are stored, then
\* QQuickItem::widthChanged and heightChanged are emitted one after the other,
\* each for a dimension that changed.  Ready connected both to
\* RenderThread::SizeChanged (queued: the receiver lives in the worker thread).
ItemResize(w, h) ==
  /\ gpc = "g_idle"
  /\ resizeCount < MaxResize
  /\ w # itemW \/ h # itemH
  /\ itemW' = w /\ itemH' = h
  /\ queue' = Append(queue, "SizeChanged")
  /\ gpc' = IF w # itemW /\ h # itemH THEN "g_height" ELSE "g_idle"
  /\ resizeCount' = resizeCount + 1
  /\ UNCHANGED <<callVars, syncVars, wpc, qpc, connected, rendererVars, inputVars,
                 engineVars, sizeRequest, nodeVars, histVars, prepareCount,
                 inputCount>>

\* the second signal of a geometry change: emit heightChanged
HeightChanged ==
  /\ gpc = "g_height"
  /\ queue' = Append(queue, "SizeChanged")
  /\ gpc' = "g_idle"
  /\ UNCHANGED <<callVars, syncVars, wpc, qpc, connected, rendererVars, inputVars,
                 engineVars, itemVars, nodeVars, histVars, countVars>>

\* RenderWindowItem::~RenderWindowItem: QObject::disconnect on every
\* connection, then the call of renderSync.Shutdown()
Disconnect ==
  /\ gpc = "g_idle" /\ writing = "none"
  /\ connected' = FALSE
  /\ sdMid' = IF renderStallState = "WorkerIsProceeding" THEN "cycle" ELSE sdMid
  /\ gpc' = "g_shutdown"
  /\ UNCHANGED <<callVars, syncVars, wpc, qpc, queue, rendererVars, inputVars,
                 engineVars, itemVars, nodeVars, observed, sdWaiters,
                 cyclesInCall, published, consumed, pubHandles, handle, emitCount,
                 waitCalls, takenId, countVars>>

\* RenderSync::Shutdown: std::unique_lock lock(this->mutex)
ShutdownLock ==
  /\ gpc = "g_shutdown"
  /\ mutex = "free"
  /\ mutex' = "gui"
  /\ gpc' = "g_set"
  /\ sdCalls' = sdCalls + 1
  /\ sdLeft' = IF sdCalls = 0 THEN <<"calling">> ELSE sdLeft
  /\ UNCHANGED <<renderStallState, cvWaiters, wpc, qpc, qtVars, rendererVars,
                 inputVars, engineVars, itemVars, nodeVars, histVars,
                 countVars>>

\* Shutdown undoing an earlier Shutdown
ShutdownToggles ==
  /\ gpc = "g_set"
  /\ renderStallState' = IF renderStallState = "ShuttingDown"
                            THEN "QtCanProceed" ELSE "ShuttingDown"
  /\ mutex' = "free"
  /\ sdWaiters' = {t \in {"worker", "qt"} : Blocked(t)}
  /\ gpc' = "g_notify"
  /\ UNCHANGED <<callVars, cvWaiters, wpc, qpc, qtVars, rendererVars, inputVars,
                 engineVars, itemVars, nodeVars, observed, sdMid,
                 cyclesInCall, published, consumed, pubHandles, handle, emitCount,
                 waitCalls, takenId, countVars>>

\* RenderSync::Shutdown: the state write and lock.unlock()
Shutdown ==
  /\ gpc = "g_set"
  /\ renderStallState' = "ShuttingDown"
  /\ mutex' = "free"
  /\ sdWaiters' = {t \in {"worker", "qt"} : Blocked(t)}
  /\ gpc' = "g_notify"
  /\ UNCHANGED <<callVars, cvWaiters, wpc, qpc, qtVars, rendererVars, inputVars,
                 engineVars, itemVars, nodeVars, observed, sdMid,
                 cyclesInCall, published, consumed, pubHandles, handle, emitCount,
                 waitCalls, takenId, countVars>>

\* RenderSync::Shutdown: this->cv.notify_one()
ShutdownNotify ==
  /\ gpc = "g_notify"
  /\ NotifyOne
  /\ sdLeft' = IF sdLeft = <<>> THEN <<>>
                ELSE <<renderStallState, cvWaiters'>>
  /\ gpc' = "g_invoke"
  /\ UNCHANGED <<sdCalls, renderStallState, mutex, wpc, qpc, qtVars, rendererVars,
                 inputVars, engineVars, itemVars, nodeVars, histVars,
                 countVars>>

\* RenderSync::Shutdown called again by the thread whose call just returned
ShutdownAgain ==
  /\ gpc = "g_invoke"
  /\ sdCalls < MaxShutdown
  /\ gpc' = "g_shutdown"
  /\ UNCHANGED <<callVars, syncVars, wpc, qpc, qtVars, rendererVars, inputVars,
                 engineVars, itemVars, nodeVars, histVars, countVars>>

\* ~RenderWindowItem: QMetaObject::invokeMethod(renderThread, "ShutDown",
\* Qt::QueuedConnection)
InvokeShutDown ==
  /\ gpc = "g_invoke"
  /\ queue' = Append(queue, "ShutDown")
  /\ gpc' = "g_wait"
  /\ UNCHANGED <<callVars, syncVars, wpc, qpc, connected, rendererVars, inputVars,
                 engineVars, itemVars, nodeVars, histVars, countVars>>

\* the destructor returning without waiting for the worker thread
ThreadNotAwaited ==
  /\ gpc = "g_wait"
  /\ gpc' = "g_done"
  /\ UNCHANGED <<callVars, syncVars, wpc, qpc, qtVars, rendererVars, inputVars,
                 engineVars, itemVars, nodeVars, histVars, countVars>>

\* ~RenderWindowItem: renderThread->wait() returns once the thread has exited
ThreadWait ==
  /\ gpc = "g_wait"
  /\ wpc = "w_exited"
  /\ gpc' = "g_done"
  /\ UNCHANGED <<callVars, syncVars, wpc, qpc, qtVars, rendererVars, inputVars,
                 engineVars, itemVars, nodeVars, histVars, countVars>>

\* ------------------------------------------------------------ specification
WorkerStep ==
  \/ RenderNext \/ RenderLock \/ WaitForQtThreadAndBlock \/ WorkerWake
  \/ RenderResize \/ RenderInput \/ RenderUpdate
  \/ ReleaseQtThreadFromBlock \/ ReleaseNotify \/ TextureReady

QtStep ==
  \/ PrepareNode \/ PrepareSwap \/ TextureInUse
  \/ QtLock \/ QtHandoff \/ QtNotify \/ QtRelock \/ QtWaitDone \/ QtWake

InputStep ==
  \/ \E e \in MouseInputs : NewMouseEvent(e)
  \/ \E p \in HoverInputs : NewHoverEvent(p)
  \/ \E d \in DropInputs : NewDropEvent(d)
  \/ \E t \in {"PRESS", "RELEASE"} : HandleKeyPress(t)

\* the worker thread with HandleMouseEvent in two steps
WorkerStepLocked ==
  \/ RenderNext \/ RenderLock \/ WaitForQtThreadAndBlock \/ WorkerWake
  \/ RenderResize \/ HandleMouseEventBroadcasts \/ HandleMouseEventClear
  \/ RenderUpdate \/ ReleaseQtThreadFromBlock \/ ReleaseNotify \/ TextureReady

\* the GUI thread's input functions in two steps each
InputStepLocked ==
  \/ \E e \in MouseInputs : NewMouseEventStore(e)
  \/ NewMouseEventDirty
  \/ \E p \in HoverInputs : NewHoverEventStore(p)
  \/ NewHoverEventDirty
  \/ \E d \in DropInputs : NewDropEventStore(d)
  \/ NewDropEventDirty
  \/ \E t \in {"PRESS", "RELEASE"} : HandleKeyPressStore(t)
  \/ HandleKeyPressModifiers

ResizeStep ==
  \/ \E s \in ResizeSizes : ItemResize(s[1], s[2])
  \/ HeightChanged
  \/ SizeChanged

DestructorStep ==
  \/ Disconnect \/ ShutdownLock \/ Shutdown \/ ShutdownNotify
  \/ InvokeShutDown \/ ThreadWait \/ ShutDown

\* frames and the destruction of the item
Next == WorkerStep \/ QtStep \/ DestructorStep \/ SpuriousWake

Spec == Init /\ [][Next]_vars

TypeOK ==
  /\ renderStallState \in RenderStallState
  /\ mutex \in {"free", "worker", "qt", "gui"}
  /\ cvWaiters \subseteq {"worker", "qt"}

\* frames and resizes while the item lives: no destructor runs
NextRun == WorkerStep \/ QtStep \/ ResizeStep \/ SpuriousWake

SpecRun == Init /\ [][NextRun]_vars

\* Scheduling: a thread that can take a step infinitely often takes one (the
\* worker's event loop, the scene graph's frame loop, the running
\* destructor).  Nothing forces a resize, the start of the destructor or a
\* spurious wake-up.
WorkerFair == SF_vars(WorkerStep \/ SizeChanged \/ ShutDown)
QtFair == SF_vars(QtStep)
DestructorFair ==
  SF_vars(ShutdownLock \/ Shutdown \/ ShutdownNotify \/ InvokeShutDown
          \/ ThreadWait)

\* the engine and its grid are available: every RenderNext reaches Render
InitLive == Init /\ engineCfg = "ok"

\* frames and the destruction of the item, with Shutdown() called more than
\* once
NextTwice == Next \/ ShutdownAgain

SpecTwice == Init /\ [][NextTwice]_vars

\* frames and input events written by the GUI thread
NextInput == WorkerStep \/ QtStep \/ InputStep

SpecInput == Init /\ [][NextInput]_vars

\* a second item exists whose renderer has the same sceneName
InitShared == InitState(NoInput) /\ engineCfg = "ok" /\ peer = "created"

PeerStep == PeerInitialize \/ PeerShutDown

\* frames and the destruction of two items that share one scene
NextShared == WorkerStep \/ QtStep \/ DestructorStep \/ PeerStep

SpecShared == InitShared /\ [][NextShared]_vars

\* the GUI thread has written one event of each category before the first
\* frame
EarlierInput ==
  [mouseDirty |-> TRUE, hoverDirty |-> TRUE, dropDirty |-> TRUE,
   mouseEvent |-> MouseEvent("LEFT", "PRESS", TRUE), keyType |-> "PRESS",
   hoverPos |-> 1, dropText |-> "a"]

InitPending == InitState(EarlierInput) /\ engineCfg = "ok" /\ peer = "none"

\* frames and input events written over the pending ones
SpecPending == InitPending /\ [][NextInput]_vars

\* frames and input events, the input functions and HandleMouseEvent taking
\* Implementation::mutex step by step
NextLocked == WorkerStepLocked \/ QtStep \/ InputStepLocked

SpecLocked == InitPending /\ [][NextLocked]_vars

\* the worker thread with HandleMouseEvent and NewTexture step by step
WorkerStepLocks ==
  \/ RenderNext \/ RenderLock \/ WaitForQtThreadAndBlock \/ WorkerWake
  \/ RenderResize \/ HandleMouseEventBroadcasts \/ HandleMouseEventClear
  \/ RenderUpdate \/ ReleaseQtThreadFromBlock \/ ReleaseNotify
  \/ TextureReadyEmit \/ NewTextureStore

\* the scene-graph thread with PrepareNode step by step
QtStepLocks ==
  \/ PrepareNodeLock \/ PrepareNodeTake \/ PrepareSwap \/ TextureInUse
  \/ QtLock \/ QtHandoff \/ QtNotify \/ QtRelock \/ QtWaitDone \/ QtWake

\* NewMouseEvent and NewHoverEvent step by step, one event of each
InputStepLocks ==
  \/ NewMouseEventStore(MouseEvent("NO_BUTTON", "MOVE", FALSE))
  \/ NewMouseEventDirty
  \/ \E p \in HoverInputs : NewHoverEventStore(p)
  \/ NewHoverEventDirty

\* frames, input events and the destruction of the item, every lock and
\* unlock of the three mutexes a step of its own
NextLocks ==
  WorkerStepLocks \/ QtStepLocks \/ InputStepLocks \/ DestructorStep

SpecLocks == InitLive /\ [][NextLocks]_vars

\* every input the GUI thread can have left pending when a frame starts:
\* any event in the mouse slot, dirty or already consumed, with any
\* combination of a hover, a drop and a key event
PendingInputs ==
  { [mouseDirty |-> md, hoverDirty |-> hd, dropDirty |-> dd,
     mouseEvent |-> MouseEvent(b, t, dr), keyType |-> k,
     hoverPos |-> 1, dropText |-> "a"] :
      md \in BOOLEAN, hd \in BOOLEAN, dd \in BOOLEAN, b \in MouseButtons,
      t \in MouseTypes, dr \in BOOLEAN, k \in KeyTypes }

InitDispatch ==
  \E in \in PendingInputs :
     InitState(in) /\ engineCfg = "ok" /\ peer = "none"

\* frames applying the input that was pending, no further event arriving
NextDispatch == WorkerStep \/ QtStep

SpecDispatch == InitDispatch /\ [][NextDispatch]_vars

\* frames only: no destructor and no geometry change, so that the worker
\* loops block-render-release for ever
NextFrames == WorkerStep \/ QtStep \/ SpuriousWake

SpecLive == InitLive /\ [][NextFrames]_vars /\ WorkerFair /\ QtFair

\* the engine is not available, or its grid cannot be created at first:
\* Initialize fails in the first RenderNext
InitFailing == Init /\ engineCfg \in {"noEngine", "noGrid"}

\* frames only, under the same scheduling, with a failing initialization
SpecFailing == InitFailing /\ [][NextFrames]_vars /\ WorkerFair /\ QtFair

\* frames and the destruction of the item, under the same scheduling
NextFair == WorkerStep \/ QtStep \/ DestructorStep

SpecFair == InitLive /\ [][NextFair]_vars /\ WorkerFair /\ QtFair
            /\ DestructorFair

\* ------------------------------------------------------------------ claims
\* the scene-graph thread is outside WaitForWorkerThread: presenting the
\* scene, or in the part of PrepareNode before the call
ControllerOutside == qpc \in {"q_idle", "q_swap", "q_emit"}

\* the worker is between the return of WaitForQtThreadAndBlock and the call
\* of ReleaseQtThreadFromBlock
WorkerInCycle ==
  wpc \in {"r_body", "r_input", "r_clear", "r_update", "r_release"}

\* the step on which WaitForQtThreadAndBlock returns
WorkerWaitReturns == wpc = "r_wait" /\ wpc' = "r_body"

\* C1: mutual exclusion, also after Shutdown(): the controller outside
\* WaitForWorkerThread and the worker inside its render cycle are never
\* active together.
C1_MutualExclusion == ~(ControllerOutside /\ WorkerInCycle)

\* the scene-graph thread is inside PrepareNode
InPrepareNode == qpc # "q_idle"

\* C2: without Shutdown, every controller call returns, and between the
\* start and the return of each WaitForWorkerThread call the worker completes
\* exactly one block-render-release cycle.
C2_HandoffLive ==
  /\ InPrepareNode ~> ~InPrepareNode
  /\ [][ (qpc = "q_wait2" /\ qpc' = "q_idle") => cyclesInCall = 1 ]_vars

\* C2 witness: the second of two consecutive calls has returned
C2_Witness == qpc = "q_idle" /\ prepareCount = 2 /\ cyclesInCall = 1

\* C3: when Shutdown() found the worker blocked inside
\* WaitForQtThreadAndBlock, the worker's call returns without the state
\* becoming WorkerIsProceeding.
C3_BlockedWorkerDoesNotProceed ==
  [][ ("worker" \in sdWaiters /\ renderStallState = "ShuttingDown"
        /\ wpc = "r_wait")
      => renderStallState' # "WorkerIsProceeding" ]_vars

\* C4: a Shutdown() requested while the worker is mid-cycle lets that cycle
\* finish (ReleaseQtThreadFromBlock sets QtCanProceed), and the worker's next
\* WaitForQtThreadAndBlock returns having observed ShuttingDown.
C4_MidCycleShutdown ==
  [][ /\ (sdMid = "cycle" /\ wpc = "r_release" /\ wpc' # wpc)
          => renderStallState' = "QtCanProceed"
      /\ (sdMid = "next" /\ WorkerWaitReturns)
          => renderStallState = "ShuttingDown" ]_vars

\* C4 witness: the call after the interrupted cycle has returned, on
\* ShuttingDown
C4_Witness == sdMid = "done" /\ observed = "ShuttingDown"

\* C5: every thread blocked on the condition variable when Shutdown() wrote
\* the state leaves its wait without entering a render cycle (worker) or
\* making a new hand-off (controller).
C5_WaitersLeaveWithoutProceeding ==
  /\ ~("worker" \in sdWaiters /\ observed = "ShuttingDown" /\ WorkerInCycle)
  /\ ~("qt" \in sdWaiters /\ gpc # "g_idle" /\ gpc # "g_shutdown"
        /\ gpc # "g_set" /\ renderStallState = "WorkerCanProceed")

\* C6: once Shutdown() has returned, no thread stays blocked in a RenderSync
\* wait forever, whatever point of the cycle the Shutdown() interleaved with.
C6_NoPermanentBlock ==
  [](gpc \in {"g_invoke", "g_wait", "g_done"}
       => <>[](~Blocked("worker") /\ ~Blocked("qt")))

\* C7: the texture of worker cycle k is published and taken by a PrepareNode
\* before cycle k+1 starts rendering, and no publish overwrites a handle that
\* no PrepareNode has taken.
C7_StrictlySerialized ==
  [][ /\ WorkerWaitReturns => handle \in {"none", "taken"}
      /\ published' = published + 1 => nodeId = 0 ]_vars

\* C8: every PrepareNode call, whatever id it took, emits TextureInUse
\* exactly once and then calls WaitForWorkerThread exactly once.
C8_PrepareAlwaysHandsOff ==
  /\ qpc \in {"q_swap", "q_emit"} => emitCount = 0 /\ waitCalls = 0
  /\ qpc = "q_lock1" => emitCount = 1 /\ waitCalls = 0
  /\ qpc \in {"q_wait1", "q_blocked1", "q_notify", "q_lock2", "q_wait2",
              "q_blocked2"} => emitCount = 1 /\ waitCalls = 1
  /\ (qpc = "q_idle" /\ prepareCount > 0) => emitCount = 1 /\ waitCalls = 1

\* C8 witness: three calls have returned, one that took a texture and the
\* last one that took id 0
C8_Witness ==
  qpc = "q_idle" /\ prepareCount = 3 /\ takenId = 0 /\ dirtyMarks = 1

\* C9: PrepareNode takes and clears the pending id in one step; a non-zero id
\* replaces the wrapper by one built from exactly the published id and size
\* and marks the node dirty, id 0 leaves the wrapper alone; no published
\* handle is consumed twice.
C9_TakeAndClear ==
  /\ [][ /\ (qpc = "q_idle" /\ qpc' = "q_swap")
             => newId' = nodeId /\ sz' = nodeSize /\ nodeId' = 0
         /\ (qpc = "q_swap" /\ qpc' = "q_emit")
             => IF newId # 0
                  THEN /\ texture' = [id |-> newId, size |-> sz]
                       /\ dirtyMarks' = dirtyMarks + 1
                       /\ wrappers' = 1
                  ELSE texture' = texture /\ dirtyMarks' = dirtyMarks ]_vars
  /\ [](consumed <= published)
  /\ [](texture.id # 0 => texture \in pubHandles)

\* C9 witness: a published handle was swapped in, and a later PrepareNode
\* that took id 0 left it in place
C9_Witness ==
  /\ qpc = "q_emit" /\ newId = 0 /\ texture.id # 0 /\ nodeId = 0
  /\ consumed = 1

\* C10: a Render that WaitForQtThreadAndBlock let through on ShuttingDown
\* has no side effects: no resize, no input dispatch, no frame, no publish.
C10_ShutdownRenderHasNoEffect ==
  [][ observed = "ShuttingDown"
      => /\ camera' = camera
         /\ textureDirty' = textureDirty
         /\ input' = input /\ dispatched' = dispatched
         /\ published' = published ]_vars

\* the step on which the worker runs the slot RenderThread::SizeChanged
SizeChangedRuns ==
  /\ wpc = "w_idle" /\ queue # <<>> /\ Head(queue) = "SizeChanged"
  /\ queue' = Tail(queue)

\* C11: a SizeChanged call that requests the width and height the previous
\* SizeChanged call requested, once that size has been applied, does not mark
\* the render target dirty again (no further rebuild in a later Render).
C11_ResizeIdempotent ==
  [][ (SizeChangedRuns /\ itemW > 0 /\ itemH > 0
        /\ sizeRequest = QSize(ToInt(itemW), ToInt(itemH))
        /\ ~textureDirty)
      => ~textureDirty' ]_vars

\* the step on which Render runs HandleMouseEvent
HandleMouseEventRuns == wpc = "r_input" /\ wpc' = "r_update"

\* C12: a HandleMouseEvent call leaves the stored key-event type NO_EVENT; a
\* call that finds NO_EVENT sends no key event; and the stored type leaves
\* NO_EVENT only when HandleKeyPress / HandleKeyRelease stores an event, so
\* one stored event is sent once.
C12_KeyEdgeTriggered ==
  /\ [][ /\ HandleMouseEventRuns
             => /\ input'.keyType = "NO_EVENT"
                /\ (input.keyType = "NO_EVENT"
                     => SelectSeq(dispatched', IsKeyEvent) = <<>>)
         /\ (input'.keyType # input.keyType /\ input'.keyType # "NO_EVENT")
             => inputCount' = inputCount + 1 ]_vars
  /\ [](keySent <= inputCount)

\* C12 witness: after a key event was sent, a later HandleMouseEvent call has
\* run and sent none
C12_Witness ==
  /\ wpc = "r_update" /\ keySent = 1
  /\ SelectSeq(dispatched, IsKeyEvent) = <<>>

\* the step on which the worker runs the slot RenderThread::RenderNext
RenderNextRuns ==
  /\ wpc = "w_idle" /\ queue # <<>> /\ Head(queue) = "RenderNext"
  /\ queue' = Tail(queue)

\* C13: a RenderNext invocation whose initialization fails ends at once: no
\* Render (no frame, no resize), no texture published, initialized still
\* false; and every RenderNext that finds initialized false calls Initialize.
C13_InitFailureAbortsFrame ==
  [][ RenderNextRuns /\ ~initialized
      => /\ initCalls' = initCalls + 1
         /\ ~initialized'
              => /\ wpc' = "w_idle"
                 /\ camera' = camera
                 /\ published' = published /\ nodeId' = nodeId
                 /\ renderStallState' = renderStallState ]_vars

\* C13 witness: initialization failed and the next RenderNext tried again
C13_Witness == initCalls = 2 /\ ~initialized /\ wpc = "w_idle"

\* C14: an Initialize call in which the grid geometry cannot be created
\* still completes: the camera exists and initialized is true afterwards.
C14_GridFailureContinues ==
  [][ (RenderNextRuns /\ ~initialized /\ engineCfg = "noGrid"
        /\ gridEnable /\ ~scene.grid)
      => initialized' /\ camera'.exists ]_vars

\* C15: the state never goes from WorkerCanProceed straight to QtCanProceed,
\* and WorkerIsProceeding is entered only from WorkerCanProceed.
C15_StateOrder ==
  [][ /\ renderStallState = "WorkerCanProceed"
           => renderStallState' # "QtCanProceed"
      /\ (renderStallState' = "WorkerIsProceeding"
           /\ renderStallState # "WorkerIsProceeding")
           => renderStallState = "WorkerCanProceed" ]_vars

\* the step on which a Shutdown() call after the first one returns, no other
\* thread having moved since the first call started
SecondShutdownReturns ==
  /\ gpc = "g_notify" /\ gpc' = "g_invoke" /\ sdCalls >= 2
  /\ Len(sdLeft) = 2

\* C16: a Shutdown() call that directly follows another leaves the state
\* and the blocked threads as the first left them: state ShuttingDown, the
\* same threads inside cv.wait, no thread newly blocked.
C16_ShutdownIdempotent ==
  [][ SecondShutdownReturns
      => /\ renderStallState' = "ShuttingDown"
         /\ sdLeft[1] = "ShuttingDown"
         /\ cvWaiters' = sdLeft[2]
         /\ wpc' = wpc /\ qpc' = qpc ]_vars

\* C16 witness: the second of two successive calls has returned; the first
\* found the scene-graph thread blocked inside WaitForWorkerThread
C16_Witness ==
  /\ sdCalls = 2 /\ gpc = "g_invoke" /\ Len(sdLeft) = 2
  /\ "qt" \in sdWaiters

\* C17: ScreenToScene returns the intersection point when the ray query
\* reports one, and otherwise origin + 10 x direction.
C17_ScreenToSceneFallback ==
  /\ toScene.ray.hit => toScene.pos = toScene.ray.point
  /\ ~toScene.ray.hit
       => /\ toScene.pos[1] = toScene.ray.origin[1] + 10 * toScene.ray.dir[1]
          /\ toScene.pos[2] = toScene.ray.origin[2] + 10 * toScene.ray.dir[2]
          /\ toScene.pos[3] = toScene.ray.origin[3] + 10 * toScene.ray.dir[3]

\* C17 witness: a hover or click was projected and the ray query hit nothing
C17_Witness ==
  /\ wpc = "r_update" /\ ~toScene.ray.hit
  /\ SelectSeq(dispatched, IsToSceneEvent) # <<>>

\* the thread that takes the step
Stepper ==
  IF wpc' # wpc THEN "worker" ELSE IF qpc' # qpc THEN "qt" ELSE "gui"

\* C18: every step that changes the sync state is taken by the thread that
\* holds RenderSync::mutex; WorkerIsProceeding exists only while the worker
\* holds the mutex, so neither a wait predicate of WaitForWorkerThread nor
\* the write of Shutdown ever finds it.
C18_WritesUnderMutex ==
  /\ [][ renderStallState' # renderStallState => mutex = Stepper ]_vars
  /\ [](renderStallState = "WorkerIsProceeding" => mutex = "worker")
  /\ [](qpc \in {"q_wait1", "q_wait2"} \/ gpc = "g_set"
          => renderStallState # "WorkerIsProceeding")

\* C18 witness: the worker is mid-cycle while the scene-graph thread and
\* Shutdown() both wait for the mutex
C18_Witness ==
  /\ renderStallState = "WorkerIsProceeding" /\ mutex = "worker"
  /\ gpc = "g_shutdown" /\ qpc \in {"q_lock1", "q_lock2", "q_blocked2"}

\* the step on which Render applies a dirty size
RenderAppliesSize == wpc = "r_body" /\ wpc' # wpc /\ textureDirty

\* C19: whatever the item's width and height, the height that Render passes
\* to SetImageHeight and divides by is at least 1.
C19_HeightAtLeastOne ==
  [][ RenderAppliesSize => textureSize.h >= 1 /\ camera'.h >= 1 ]_vars

\* C20: the aspect ratio Render passes to the camera for a dirty size with
\* positive width and height is width / height: ratio x height = width.
C20_AspectRatio ==
  [][ (RenderAppliesSize /\ textureSize.w > 0 /\ textureSize.h > 0)
      => camera'.aspect * textureSize.h = textureSize.w ]_vars

\* the events the nine Broadcast* functions send, and the number of times an
\* event occurs among those sent by one call
SceneEvents ==
  {"HoverToScene", "HoverOnScene", "DragOnScene", "MousePressOnScene",
   "LeftClickToScene", "LeftClickOnScene", "RightClickToScene",
   "RightClickOnScene", "ScrollOnScene", "KeyPressOnScene",
   "KeyReleaseOnScene", "DropOnScene"}

TimesSent(out, e) == Len(SelectSeq(out, LAMBDA x : x = e))

\* the flag, or key type, that gates the dispatch of event e, read in the
\* input state in
Pending(in, e) ==
  CASE e \in {"HoverToScene", "HoverOnScene"} -> in.hoverDirty
    [] e = "KeyPressOnScene" -> in.keyType = "PRESS"
    [] e = "KeyReleaseOnScene" -> in.keyType = "RELEASE"
    [] e = "DropOnScene" -> in.dropDirty
    [] OTHER -> in.mouseDirty

\* C21: one HandleMouseEvent call sends each event at most once, sends it
\* only if the flag (or key type) that gates it was set when the call
\* started, and has cleared that flag when it returns.
C21_DispatchOncePerFlag ==
  [][HandleMouseEventRuns
       => \A e \in SceneEvents :
            /\ TimesSent(dispatched', e) <= 1
            /\ TimesSent(dispatched', e) = 1
                 => Pending(input, e) /\ ~Pending(input', e)]_vars

\* a call that found a hover, a drag, a key press and a drop pending and
\* sent all four
C21_Witness ==
  /\ wpc = "r_update"
  /\ \A e \in {"HoverOnScene", "DragOnScene", "KeyPressOnScene",
                 "DropOnScene"} : TimesSent(dispatched, e) = 1

\* event e is among those the call that just ran has sent
Sent(e) == TimesSent(dispatched', e) >= 1

\* C22: a left (right) click is sent only for a last mouse event with button
\* LEFT (RIGHT) and type RELEASE, a scroll only for one of type SCROLL, a
\* drag only for one whose dragging flag is set.
C22_ClickScrollDragGuards ==
  [][HandleMouseEventRuns
       => /\ Sent("LeftClickToScene") \/ Sent("LeftClickOnScene")
               => /\ input.mouseEvent.button = "LEFT"
                  /\ input.mouseEvent.type = "RELEASE"
          /\ Sent("RightClickToScene") \/ Sent("RightClickOnScene")
               => /\ input.mouseEvent.button = "RIGHT"
                  /\ input.mouseEvent.type = "RELEASE"
          /\ Sent("ScrollOnScene") => input.mouseEvent.type = "SCROLL"
          /\ Sent("DragOnScene") => input.mouseEvent.dragging]_vars

\* a call that has sent a right click
C22_Witness ==
  /\ wpc = "r_update"
  /\ TimesSent(dispatched, "RightClickToScene") = 1
  /\ TimesSent(dispatched, "RightClickOnScene") = 1

Last(seq) == seq[Len(seq)]

RenderReadsId == wpc = "r_body" /\ wpc' = "r_input"
RenderDrawsFrame == camera'.frames # camera.frames
PublishesHandle == published' # published

\* C24: in every worker cycle the texture id is read once the pending size
\* has been applied and before the frame is rendered, and the handle
\* published after the cycle is that id with the size in effect when it was
\* read: the size does not change between the read and the publish.
C24_HandleIsIdReadWithItsSize ==
  [][ /\ RenderReadsId
           => /\ ~textureDirty'
              /\ textureId' = camera'.glId
              /\ textureSize' = QSize(camera'.w, camera'.h)
              /\ camera'.frames = camera.frames
      /\ RenderDrawsFrame
           => textureId = camera.glId /\ textureId' = textureId
      /\ PublishesHandle
           => /\ nodeId' = textureId /\ textureId = camera.glId
              /\ nodeSize' = textureSize
              /\ textureSize = QSize(camera.w, camera.h) ]_vars

\* a handle published for a frame rendered at a new size
C24_Witness ==
  /\ handle = "published"
  /\ camera.rebuilds >= 2
  /\ nodeSize = QSize(3, 2)
  /\ nodeSize = QSize(camera.w, camera.h)

\* every item that shares the scene has shut down
AllItemsShutDown == wpc = "w_exited" /\ peer \in {"none", "gone"}

\* C25: Destroy removes this renderer's camera and destroys the scene exactly
\* when no other sensor is left in it; with several items sharing the scene,
\* the scene is destroyed once, by the shutdown of the last of them.
C25_SceneDestroyedByLast ==
  /\ sceneDestroys <= 1
  /\ sceneDestroys = 1 => AllItemsShutDown

\* C26: destruction terminates.  Once the destructor has called Shutdown() and
\* queued ShutDown, the worker processes ShutDown and exits, and the
\* destructor's wait on the worker thread returns.
C26_DestructionTerminates ==
  [](gpc = "g_wait" => <>(wpc = "w_exited" /\ gpc = "g_done"))

\* the destructor's body has returned: dataPtr, and with it the RenderSync
\* member of RenderWindowItem::Implementation, is destroyed
RenderSyncDestroyed == gpc = "g_done"

\* ShutDown has been queued to the worker, or the worker has run it
ShutDownRequested ==
  wpc = "w_exited" \/ \E i \in 1..Len(queue) : queue[i] = "ShutDown"

\* C27: destruction order.  The RenderSync is destroyed only after the worker
\* thread has terminated, RenderSync::Shutdown() has been called and has
\* returned before ShutDown is requested, and the worker takes no step once
\* the RenderSync is destroyed.
C27_DestructionOrder ==
  /\ [](RenderSyncDestroyed => wpc = "w_exited")
  /\ [](ShutDownRequested => sdCalls >= 1 /\ gpc \in {"g_wait", "g_done"})
  /\ [][RenderSyncDestroyed => wpc' = wpc]_vars

\* the worker has rendered, run ShutDown and exited, and the destructor has
\* returned
C27_Witness ==
  /\ RenderSyncDestroyed /\ wpc = "w_exited"
  /\ camera.frames >= 1 /\ queue = <<>>

\* C28: a controller inside PrepareNode (hence in, or about to enter,
\* WaitForWorkerThread) while the renderer's initialization fails is
\* eventually released: PrepareNode returns.
C28_ReleasedAfterInitFailure ==
  []((InPrepareNode /\ ~initialized) => <>(qpc = "q_idle"))

\* the events of the five dispatches gated by mouseDirty
IsMouseEvent(e) ==
  e \in {"DragOnScene", "MousePressOnScene", "LeftClickToScene",
         "LeftClickOnScene", "RightClickToScene", "RightClickOnScene",
         "ScrollOnScene"}

\* the one mouse dispatch that has priority for the pending mouse event
MouseDispatchDue(in) ==
  IF ~in.mouseDirty THEN <<>>
  ELSE IF in.mouseEvent.dragging THEN <<"DragOnScene">>
  ELSE IF in.mouseEvent.type = "PRESS" THEN <<"MousePressOnScene">>
  ELSE IF in.mouseEvent.button = "LEFT" /\ in.mouseEvent.type = "RELEASE"
    THEN <<"LeftClickToScene", "LeftClickOnScene">>
  ELSE IF in.mouseEvent.button = "RIGHT" /\ in.mouseEvent.type = "RELEASE"
    THEN <<"RightClickToScene", "RightClickOnScene">>
  ELSE IF in.mouseEvent.type = "SCROLL" THEN <<"ScrollOnScene">>
  ELSE <<>>

\* C29: one call makes at most one of the five mouse dispatches, the first in
\* the order drag, press, left click, right click, scroll whose condition the
\* pending mouse event meets; a release with the dragging flag set is sent as
\* a drag and not as a click.
C29_OneMouseDispatchByPriority ==
  [][HandleMouseEventRuns
       => SelectSeq(dispatched', IsMouseEvent) = MouseDispatchDue(input)]_vars

\* a call that has sent a drag, and no click, for a left-button release with
\* the dragging flag set
C29_Witness ==
  /\ wpc = "r_update"
  /\ SelectSeq(dispatched, IsMouseEvent) = <<"DragOnScene">>
  /\ input.mouseEvent = MouseEvent("LEFT", "RELEASE", TRUE)

\* nothing is pending in the input state in
NothingPending(in) ==
  /\ ~in.mouseDirty /\ ~in.hoverDirty /\ ~in.dropDirty
  /\ in.keyType \notin {"PRESS", "RELEASE"}

\* C30: HandleMouseEvent is idempotent when no input arrives.  A call leaves
\* every dirty flag false and the key type neither PRESS nor RELEASE, a mouse
\* event that matched no dispatch being discarded, so that a second call
\* sends nothing and changes nothing.
C30_DispatchIdempotent ==
  [][HandleMouseEventRuns
       => /\ NothingPending(input')
          /\ HandleMouseEvent(input').out = <<>>
          /\ HandleMouseEvent(input').in = input'
          /\ NothingPending(input) => dispatched' = <<>> /\ input' = input]_vars

\* the second call in a row, having sent nothing, after a first call that
\* discarded a mouse move that matched no dispatch
C30_Witness ==
  /\ wpc = "r_update" /\ camera.frames = 1
  /\ dispatched = <<>>
  /\ input.mouseEvent = MouseEvent("NO_BUTTON", "MOVE", FALSE)
  /\ NothingPending(input)

\* the step of HandleMouseEvent that clears mouseDirty and returns
HandleMouseEventReturns == wpc = "r_clear" /\ wpc' = "r_update"

\* every event written since the last call read the input is still in its
\* slot with its flag set (a key event: its type is the flag)
WrittenRetained(in, w) ==
  /\ w.mouse # <<>> => in.mouseDirty /\ in.mouseEvent = Last(w.mouse)
  /\ w.hover # <<>> => in.hoverDirty /\ in.hoverPos = Last(w.hover)
  /\ w.drop # <<>> => in.dropDirty /\ in.dropText = Last(w.drop)
  /\ w.key # <<>> => in.keyType = Last(w.key)

\* C31: input writes are atomic with respect to HandleMouseEvent.  No write
\* is half done while a call runs; between the reads of a call and its final
\* mouseDirty = false nothing is written, so the call clears no flag of an
\* event it has not read; and an event written after the reads of a call
\* stays in its slot with its flag set until the next call reads it.
C31_WritesAtomic ==
  [][ /\ ~(inputMutex' = "worker" /\ writing' # "none")
      /\ wpc' = "r_clear" => inputMutex' = "worker"
      /\ HandleMouseEventReturns
           => input = seen /\ written = WrittenIn(NoInput)
      /\ writing' = "none" => WrittenRetained(input', written') ]_vars

\* a call has read the input and returned, the GUI thread has written a
\* mouse event since, and the event waits with mouseDirty set
C31_Witness ==
  /\ wpc \in {"r_update", "r_release", "r_notify", "rn_emit", "w_idle"}
  /\ dispatched # <<>>
  /\ inputCount = 1
  /\ writing = "none"
  /\ written.mouse # <<>>
  /\ input.mouseDirty /\ input.mouseEvent = Last(written.mouse)

\* the predicate thread t passes to cv.wait
WaitPred(t) == IF t = "worker" THEN WorkerWaitPred ELSE QtWaitPred

\* a thread has written renderStallState and is about to call notify_one
NotifyPending == wpc = "r_notify" \/ qpc = "q_notify" \/ gpc = "g_notify"

\* the notify_one of ReleaseQtThreadFromBlock, WaitForWorkerThread or
\* Shutdown
NotifyStep ==
  \/ wpc = "r_notify" /\ wpc' # wpc
  \/ qpc = "q_notify" /\ qpc' # qpc
  \/ gpc = "g_notify" /\ gpc' # gpc

\* C32: the scene-graph thread and the worker never both wait on the
\* condition variable of RenderSync, so no wake-up is lost: a thread waits
\* with its predicate true only while a notify_one is about to be called,
\* and a notify_one called while a thread waits with its predicate true
\* wakes that thread.
C32_OneWaiterNoLostWakeup ==
  [][ /\ Cardinality(cvWaiters') <= 1
      /\ \A t \in cvWaiters' : WaitPred(t)' => NotifyPending'
      /\ NotifyStep /\ (\E t \in cvWaiters : WaitPred(t))
           => cvWaiters' = {} ]_vars

\* the notify_one of WaitForWorkerThread has reached the worker, which has
\* yet to re-acquire the mutex, and the scene-graph thread has entered its
\* second wait: both are inside cv.wait, one of them waiting to be notified
C32_Witness ==
  /\ renderStallState = "WorkerCanProceed"
  /\ wpc = "r_blocked" /\ "worker" \notin cvWaiters
  /\ qpc = "q_blocked2" /\ cvWaiters = {"qt"}

Threads == {"worker", "qt", "gui"}
Locks == {"sync", "input", "texture"}

\* the thread holding RenderSync::mutex, Implementation::mutex or
\* TextureNode::mutex, or "free"
Holder(l) ==
  CASE l = "sync" -> mutex
    [] l = "input" -> inputMutex
    [] l = "texture" -> texMutex

Held(t) == {l \in Locks : Holder(l) = t}

\* the lock thread t is about to acquire, or "none"
Wants(t) ==
  CASE t = "worker" ->
         IF wpc = "r_lock" \/ (wpc = "r_blocked" /\ "worker" \notin cvWaiters)
           THEN "sync"
         ELSE IF wpc = "r_input" THEN "input"
         ELSE IF wpc = "rn_emit" /\ connected THEN "texture"
         ELSE "none"
    [] t = "qt" ->
         IF qpc \in {"q_lock1", "q_lock2"}
            \/ (qpc \in {"q_blocked1", "q_blocked2"} /\ "qt" \notin cvWaiters)
           THEN "sync"
         ELSE IF qpc = "q_idle" /\ connected THEN "texture"
         ELSE "none"
    [] t = "gui" -> IF gpc = "g_shutdown" THEN "sync" ELSE "none"

\* thread t cannot run until another thread acts on the condition variable
\* or, for the destructor, until the worker thread has exited
Suspended(t) ==
  \/ t \in cvWaiters
  \/ t = "gui" /\ gpc = "g_wait"

\* the scene-graph thread is inside RenderSync::WaitForWorkerThread
InWaitForWorkerThread ==
  qpc \in {"q_lock1", "q_wait1", "q_blocked1", "q_notify", "q_lock2",
           "q_wait2", "q_blocked2"}

\* C33: the three locks are taken in an acyclic order.  Only the worker
\* holds two at once, the RenderSync mutex and then the input mutex; a
\* thread takes the RenderSync mutex or the texture mutex holding nothing;
\* the GUI thread in the destructor holds neither the input nor the texture
\* mutex; PrepareNode has released the texture mutex when it is inside
\* WaitForWorkerThread; and a thread that holds a lock is never suspended,
\* and waits for another lock only if the holder of that lock waits for
\* nothing: no state is a deadlock of these locks.
C33_LockOrderAcyclic ==
  /\ Held("worker") \in {{}, {"sync"}, {"sync", "input"}, {"texture"}}
  /\ \A t \in {"qt", "gui"} : Cardinality(Held(t)) <= 1
  /\ \A t \in Threads :
       /\ Wants(t) \in {"sync", "texture"} => Held(t) = {}
       /\ Wants(t) = "input" => t = "worker" /\ Held(t) = {"sync"}
  /\ gpc # "g_idle" => Held("gui") \subseteq {"sync"}
  /\ InWaitForWorkerThread => texMutex # "qt"
  /\ \A t \in Threads :
       Held(t) # {}
         => /\ ~Suspended(t)
            /\ Wants(t) # "none" /\ Holder(Wants(t)) # "free"
                 => /\ Wants(Holder(Wants(t))) = "none"
                    /\ ~Suspended(Holder(Wants(t)))

\* the worker, inside Render with the RenderSync mutex, waits for the input
\* mutex, which the GUI thread holds inside NewMouseEvent, while the
\* scene-graph thread waits in WaitForWorkerThread
C33_Witness ==
  /\ wpc = "r_input" /\ mutex = "worker"
  /\ inputMutex = "gui" /\ writing = "NewMouseEvent"
  /\ qpc = "q_blocked2"
  /\ texMutex = "free"

\* the RenderNext invocations queued to the worker thread, plus the one the
\* worker is inside if it has yet to pass WaitForQtThreadAndBlock in Render
OutstandingRequests ==
  Len(SelectSeq(queue, LAMBDA m : m = "RenderNext"))
    + (IF wpc \in {"r_lock", "r_wait", "r_blocked"} THEN 1 ELSE 0)

\* the scene-graph thread is inside TextureNode::PrepareNode
PrepareNodeExecuting == qpc # "q_idle"

\* C34 as amended: the number of outstanding render requests never exceeds
\* 2, and it is at most 1 whenever PrepareNode is not executing and
\* RenderSync::Shutdown has not been called.
C34_RequestsBounded ==
  /\ OutstandingRequests <= 2
  /\ ~PrepareNodeExecuting /\ sdCalls = 0 => OutstandingRequests <= 1

\* C34 as stated: the number of outstanding render requests never exceeds 2
\* and is at most 1 whenever PrepareNode is not executing.
C34_AtMostOneOutsidePrepareNode ==
  /\ OutstandingRequests <= 2
  /\ ~PrepareNodeExecuting => OutstandingRequests <= 1

\* in the second frame the worker is blocked in Render on one request, the
\* TextureInUse of PrepareNode has queued the next, and Shutdown has not
\* been called
C34_Witness ==
  /\ prepareCount >= 2
  /\ wpc = "r_blocked"
  /\ queue = <<"RenderNext">>
  /\ qpc = "q_lock1"
  /\ sdCalls = 0

====
